---- MODULE Spec2Model ----
(***************************************************************************)
(* Verification model of the pathoplus client: ApiService.predict and      *)
(* ApiService.batchInfer (src/services/api.ts), the consensus engine       *)
(* getConsensus, ModelResultCard and the batch results view                *)
(* (src/unnamed/part_000), and the App with its Dashboard, settings and    *)
(* history (src/services/api.ts).                                          *)
(***************************************************************************)
EXTENDS Integers, Sequences, FiniteSets, TLC

\* ------------------------------------------------------------------------
\* Bounds of the model
\* ------------------------------------------------------------------------
MaxEntries == 3
MaxLiveEntries == 3
MaxTotal == 201
MaxModelsVoting == 3
MaxPredictions == 3
MaxLabelled == 2
MaxLedger == 2
MaxRuns == 2
MaxEditedRuns == 1
MaxRunEntries == 1
MaxMounts == 2

\* ------------------------------------------------------------------------
\* IEEE-754 binary64 arithmetic, as used by
\*   Math.round(((i + 1) / total) * 100)
\* A 53-bit significand is kept as five limbs <<t, d1, d2, d3, d4>> standing
\* for t * 2^52 + d1 * 2^39 + d2 * 2^26 + d3 * 2^13 + d4; a double is
\* [m |-> limbs, e |-> exponent] with value m * 2^(e - 52).
\* ------------------------------------------------------------------------
LimbBase == 8192

RECURSIVE LeadRem(_, _)
LeadRem(r, n) == IF r >= n THEN r ELSE LeadRem(2 * r, n)

RECURSIVE LeadExp(_, _, _)
LeadExp(r, n, p) == IF r >= n THEN p ELSE LeadExp(2 * r, n, p - 1)

RECURSIVE Pow2(_)
Pow2(s) == IF s = 0 THEN 1 ELSE 2 * Pow2(s - 1)

\* m + unit, where unit < LimbBase is added to the lowest limb
AddLow(m, unit) ==
    LET s4 == m[5] + unit
        s3 == m[4] + (s4 \div LimbBase)
        s2 == m[3] + (s3 \div LimbBase)
        s1 == m[2] + (s2 \div LimbBase)
    IN  << m[1] + (s1 \div LimbBase), s1 % LimbBase, s2 % LimbBase,
           s3 % LimbBase, s4 % LimbBase >>

\* round to nearest, ties to even: cmp is the dropped part compared with
\* half of unit (-1 below, 0 equal, 1 above); unit is the weight of the
\* last kept bit in the lowest limb
RoundNearestEven(m, unit, cmp) ==
    LET odd == (m[5] \div unit) % 2 = 1
        up == cmp = 1 \/ (cmp = 0 /\ odd)
    IN  IF up THEN AddLow(m, unit) ELSE m

\* k / n for integers 1 <= k <= n
FloatDiv(k, n) ==
    LET e  == LeadExp(k, n, 0)
        r1 == LeadRem(k, n) - n
        d1 == (r1 * LimbBase) \div n
        r2 == (r1 * LimbBase) % n
        d2 == (r2 * LimbBase) \div n
        r3 == (r2 * LimbBase) % n
        d3 == (r3 * LimbBase) \div n
        r4 == (r3 * LimbBase) % n
        d4 == (r4 * LimbBase) \div n
        r5 == (r4 * LimbBase) % n
        cmp == IF 2 * r5 > n THEN 1 ELSE IF 2 * r5 = n THEN 0 ELSE -1
        m  == RoundNearestEven(<<1, d1, d2, d3, d4>>, 1, cmp)
    IN  IF m[1] = 2 THEN [m |-> <<1, 0, 0, 0, 0>>, e |-> e + 1]
        ELSE [m |-> m, e |-> e]

\* x * 100 for a double x, rounded to 53 significant bits; the result keeps
\* the exponent of x, its top limb is in 100..200
FloatMul100(x) ==
    LET p4 == x.m[5] * 100
        p3 == x.m[4] * 100 + (p4 \div LimbBase)
        p2 == x.m[3] * 100 + (p3 \div LimbBase)
        p1 == x.m[2] * 100 + (p2 \div LimbBase)
        t  == x.m[1] * 100 + (p1 \div LimbBase)
        l4 == p4 % LimbBase
        unit == IF t >= 128 THEN 128 ELSE 64
        low == l4 % unit
        cmp == IF 2 * low > unit THEN 1 ELSE IF 2 * low = unit THEN 0 ELSE -1
        kept == << t, p1 % LimbBase, p2 % LimbBase, p3 % LimbBase, l4 - low >>
    IN  [m |-> RoundNearestEven(kept, unit, cmp), e |-> x.e]

\* Math.round(x) = floor(x + 0.5) for a double x with x.e <= 0
MathRound(x) ==
    LET s == 0 - x.e
        t == x.m[1]
    IN  IF s = 0
        THEN t + (IF 2 * x.m[2] >= LimbBase THEN 1 ELSE 0)
        ELSE (t \div Pow2(s)) + (IF 2 * (t % Pow2(s)) >= Pow2(s) THEN 1 ELSE 0)

ProgressPercentOffByOne(i, total) ==
    IF i = 0 THEN 0 ELSE MathRound(FloatMul100(FloatDiv(i, total)))

\* the value handed to onProgress in iteration i (0-based) of total
ProgressPercent(i, total) == MathRound(FloatMul100(FloatDiv(i + 1, total)))

\* ------------------------------------------------------------------------
\* IEEE-754 binary64 arithmetic, as used by
\*   totalScore += top.score   and   totalScore / total
\* A double x with 2^-7 <= x < 2^6 is kept in fixed point as five limbs
\* <<l1, l2, l3, l4, l5>> standing for
\*   (l1 * 2^52 + l2 * 2^39 + l3 * 2^26 + l4 * 2^13 + l5) * 2^-59;
\* with 2^h the leading bit of l1, the last of its 53 significant bits is
\* bit h of l5.
\* ------------------------------------------------------------------------
RECURSIVE Log2Floor(_)
Log2Floor(x) == IF x < 2 THEN 0 ELSE 1 + Log2Floor(x \div 2)

\* the fixed-point form of a double [m, e] with -7 <= e <= 0
Fixed(x) ==
    LET f  == Pow2(x.e + 7)
        p5 == x.m[5] * f
        p4 == x.m[4] * f + (p5 \div LimbBase)
        p3 == x.m[3] * f + (p4 \div LimbBase)
        p2 == x.m[2] * f + (p3 \div LimbBase)
    IN  << x.m[1] * f + (p2 \div LimbBase), p2 % LimbBase, p3 % LimbBase,
           p4 % LimbBase, p5 % LimbBase >>

\* a score given in hundredths, as the double JSON.parse yields for it
ScoreValue(hundredths) == Fixed(FloatDiv(hundredths, 100))

FloatZero == <<0, 0, 0, 0, 0>>

\* a + b, rounded to 53 significant bits
FloatAdd(a, b) ==
    LET s5 == a[5] + b[5]
        s4 == a[4] + b[4] + (s5 \div LimbBase)
        s3 == a[3] + b[3] + (s4 \div LimbBase)
        s2 == a[2] + b[2] + (s3 \div LimbBase)
        s1 == a[1] + b[1] + (s2 \div LimbBase)
        unit == Pow2(Log2Floor(s1))
        l5 == s5 % LimbBase
        low == l5 % unit
        cmp == IF 2 * low > unit THEN 1 ELSE IF 2 * low = unit THEN 0 ELSE -1
        kept == << s1, s2 % LimbBase, s3 % LimbBase, s4 % LimbBase, l5 - low >>
    IN  RoundNearestEven(kept, unit, cmp)

\* x / n for a double x and an integer n >= 1 with x / n >= 2^-7, rounded to
\* 53 significant bits
FloatDivInt(x, n) ==
    LET q1 == x[1] \div n
        r1 == x[1] % n
        q2 == (r1 * LimbBase + x[2]) \div n
        r2 == (r1 * LimbBase + x[2]) % n
        q3 == (r2 * LimbBase + x[3]) \div n
        r3 == (r2 * LimbBase + x[3]) % n
        q4 == (r3 * LimbBase + x[4]) \div n
        r4 == (r3 * LimbBase + x[4]) % n
        q5 == (r4 * LimbBase + x[5]) \div n
        r5 == (r4 * LimbBase + x[5]) % n
        q6 == (r5 * LimbBase) \div n
        r6 == (r5 * LimbBase) % n
        unit == Pow2(Log2Floor(q1))
        low == q5 % unit
        dropped == low * LimbBase + q6
        half == unit * (LimbBase \div 2)
        cmp == IF dropped > half \/ (dropped = half /\ r6 > 0) THEN 1
               ELSE IF dropped = half THEN 0 ELSE -1
    IN  RoundNearestEven(<< q1, q2, q3, q4, q5 - low >>, unit, cmp)


\* ------------------------------------------------------------------------
\* Strings are sequences of one-character strings, so that toLowerCase,
\* String.includes and the filename pattern are computed, not assumed.
\* ------------------------------------------------------------------------
UpperChars == <<"A","B","C","D","E","F","G","H","I","J","K","L","M",
                "N","O","P","Q","R","S","T","U","V","W","X","Y","Z">>
LowerChars == <<"a","b","c","d","e","f","g","h","i","j","k","l","m",
                "n","o","p","q","r","s","t","u","v","w","x","y","z">>

LowerChar(c) ==
    IF \E j \in 1..26 : UpperChars[j] = c
    THEN LowerChars[CHOOSE j \in 1..26 : UpperChars[j] = c]
    ELSE c

toLowerCase(s) == [j \in 1..Len(s) |-> LowerChar(s[j])]

EndsWith(s, suffix) ==
    /\ Len(suffix) <= Len(s)
    /\ SubSeq(s, Len(s) - Len(suffix) + 1, Len(s)) = suffix

\* the alternatives of /\.(jpg|jpeg|png|tif|tiff|webp)$/i
ImageExtensions ==
    { <<"j","p","g">>, <<"j","p","e","g">>, <<"p","n","g">>,
      <<"t","i","f">>, <<"t","i","f","f">>, <<"w","e","b","p">> }

MatchesImagePatternCaseSensitive(relativePath) ==
    \E ext \in ImageExtensions : EndsWith(relativePath, <<".">> \o ext)

\* relativePath.match(/\.(jpg|jpeg|png|tif|tiff|webp)$/i)
MatchesImagePattern(relativePath) ==
    \E ext \in ImageExtensions :
        EndsWith(toLowerCase(relativePath), <<".">> \o ext)

\* ------------------------------------------------------------------------
\* Archive entries (JSZip objects): a directory entry's name ends in "/"
\* ------------------------------------------------------------------------
EntryPool ==
    { [name |-> <<"a",".","j","p","g">>, dir |-> FALSE],
      [name |-> <<"B",".","P","N","G">>, dir |-> FALSE],
      [name |-> <<"c",".","t","i","f","f">>, dir |-> FALSE],
      [name |-> <<"e","j","p","g">>, dir |-> FALSE],
      [name |-> <<"f",".","p","n","g","/">>, dir |-> TRUE] }

RECURSIVE DistinctSeqs(_, _)
DistinctSeqs(S, n) ==
    IF n = 0 THEN {<<>>}
    ELSE {<<>>} \cup
         UNION { { <<e>> \o rest : rest \in DistinctSeqs(S \ {e}, n - 1) } : e \in S }

\* a File handed to batchInfer: a valid archive with its entries in
\* enumeration order, or a blob that is no archive
Archives(n) ==
    { [valid |-> TRUE, entries |-> es] : es \in DistinctSeqs(EntryPool, n) }
    \cup { [valid |-> FALSE, entries |-> <<>>] }

\* the archives of the runs followed to their end: the first entries of
\* one enumeration, or a blob that is no archive
LiveEntryOrder ==
    << [name |-> <<"a",".","j","p","g">>, dir |-> FALSE],
       [name |-> <<"e","j","p","g">>, dir |-> FALSE],
       [name |-> <<"B",".","P","N","G">>, dir |-> FALSE],
       [name |-> <<"c",".","t","i","f","f">>, dir |-> FALSE],
       [name |-> <<"f",".","p","n","g","/">>, dir |-> TRUE] >>

LiveArchives(n) ==
    { [valid |-> TRUE, entries |-> SubSeq(LiveEntryOrder, 1, k)] :
        k \in 0..(IF n < Len(LiveEntryOrder) THEN n ELSE Len(LiveEntryOrder)) }
    \cup { [valid |-> FALSE, entries |-> <<>>] }

\* zipContent.forEach(...) with the filter of batchInfer
RECURSIVE FilterImageEntries(_)
FilterImageEntries(entries) ==
    IF entries = <<>> THEN <<>>
    ELSE LET zipEntry == Head(entries)
             rest == FilterImageEntries(Tail(entries))
         IN  IF ~zipEntry.dir /\ MatchesImagePattern(zipEntry.name)
             THEN <<zipEntry.name>> \o rest
             ELSE rest


\* ------------------------------------------------------------------------
\* Settings, predictions and the remote capability's responses
\* ------------------------------------------------------------------------
\* model-name keys of settings.activeModels, in key order (a subset of the
\* keys of DEFAULT_SETTINGS)
ModelOrder == <<"hospital_a", "global_fedavg">>
Models == { ModelOrder[j] : j \in 1..Len(ModelOrder) }

SettingsPool == [activeModels : [Models -> BOOLEAN]]

\* Object.keys(settings.activeModels).filter(key => settings.activeModels[key])
RECURSIVE FilterActive(_, _)
FilterActive(keys, activeModels) ==
    IF keys = <<>> THEN <<>>
    ELSE (IF activeModels[Head(keys)] THEN <<Head(keys)>> ELSE <<>>)
         \o FilterActive(Tail(keys), activeModels)

ActiveModelKeys(s) == FilterActive(ModelOrder, s.activeModels)

\* the characters of the labels used in the model
LabelChars ==
    ("Invasive Ductal Carcinoma" :> <<"I","n","v","a","s","i","v","e"," ","D","u","c","t","a","l"," ","C","a","r","c","i","n","o","m","a">>) @@
    ("POSITIVE" :> <<"P","O","S","I","T","I","V","E">>) @@
    ("malignant lesion" :> <<"m","a","l","i","g","n","a","n","t"," ","l","e","s","i","o","n">>) @@
    ("Lung Cancer" :> <<"L","u","n","g"," ","C","a","n","c","e","r">>) @@
    ("Normal Tissue" :> <<"N","o","r","m","a","l"," ","T","i","s","s","u","e">>) @@
    ("Benign Fibroadenoma" :> <<"B","e","n","i","g","n"," ","F","i","b","r","o","a","d","e","n","o","m","a">>) @@
    ("Non-Malignant Cyst" :> <<"N","o","n","-","M","a","l","i","g","n","a","n","t"," ","C","y","s","t">>) @@
    ("Precancerous Polyp" :> <<"P","r","e","c","a","n","c","e","r","o","u","s"," ","P","o","l","y","p">>) @@
    ("Carcinoid Tumor" :> <<"C","a","r","c","i","n","o","i","d"," ","T","u","m","o","r">>)

Labels == DOMAIN LabelChars

\* ModelPrediction: score in hundredths (0.9 is 90), from 1 to 100
ListCarcinoma == << [label |-> "Invasive Ductal Carcinoma", score |-> 90],
                    [label |-> "Normal Tissue", score |-> 10] >>
ListNormal == << [label |-> "Normal Tissue", score |-> 80] >>

\* a JSON object is the sequence of its members in key order; a member's
\* value is a prediction list (list = TRUE) or null (list = FALSE)
Member(k, l) == [model |-> k, list |-> TRUE, preds |-> l]
NullMember(k) == [model |-> k, list |-> FALSE, preds |-> <<>>]

JsonPool ==
    { [type |-> "number", members |-> <<>>],
      [type |-> "object", members |-> <<>>],
      [type |-> "object", members |-> << Member("hospital_a", ListCarcinoma),
                                         Member("global_fedavg", ListNormal) >>],
      [type |-> "object", members |-> << NullMember("hospital_a"),
                                         Member("global_fedavg", ListNormal) >>] }

\* response.text of generateContent: absent/empty, text that is not JSON,
\* or the text of a JSON value
ResponsePool ==
    { [kind |-> "empty", value |-> [type |-> "number", members |-> <<>>]],
      [kind |-> "malformed", value |-> [type |-> "number", members |-> <<>>]] }
    \cup { [kind |-> "json", value |-> v] : v \in JsonPool }

EmptyPredictionSet == [type |-> "object", members |-> <<>>]
NoValue == [type |-> "undefined", members |-> <<>>]


\* ------------------------------------------------------------------------
\* getConsensus (the consensus engine)
\* ------------------------------------------------------------------------
\* s.includes(sub)
Includes(s, sub) ==
    \E j \in 1..(Len(s) - Len(sub) + 1) : SubSeq(s, j, j + Len(sub) - 1) = sub

RECURSIVE InsertDescTiesLast(_, _)
InsertDescTiesLast(x, sorted) ==
    IF sorted = <<>> THEN <<x>>
    ELSE IF Head(sorted).score - x.score <= 0
         THEN <<x>> \o sorted
         ELSE <<Head(sorted)>> \o InsertDescTiesLast(x, Tail(sorted))

\* [...preds].sort((a, b) => b.score - a.score): a stable sort, an element
\* goes behind every element whose score is not smaller
RECURSIVE InsertDesc(_, _)
InsertDesc(x, sorted) ==
    IF sorted = <<>> THEN <<x>>
    ELSE IF Head(sorted).score - x.score < 0
         THEN <<x>> \o sorted
         ELSE <<Head(sorted)>> \o InsertDesc(x, Tail(sorted))

RECURSIVE SortDesc(_)
SortDesc(preds) ==
    IF preds = <<>> THEN <<>>
    ELSE InsertDesc(preds[Len(preds)], SortDesc(SubSeq(preds, 1, Len(preds) - 1)))

TopPrediction(preds) == SortDesc(preds)[1]

IsPositiveLabelCaseSensitive(labelStr) ==
    LET label == LabelChars[labelStr]
    IN  \/ Includes(label, <<"c","a","n","c","e","r">>)
        \/ Includes(label, <<"c","a","r","c","i","n","o","m","a">>)
        \/ Includes(label, <<"p","o","s","i","t","i","v","e">>)
        \/ Includes(label, <<"m","a","l","i","g","n","a","n","t">>)

\* the keyword test of getConsensus on top.label.toLowerCase()
IsPositiveLabel(labelStr) ==
    LET label == toLowerCase(LabelChars[labelStr])
    IN  \/ Includes(label, <<"c","a","n","c","e","r">>)
        \/ Includes(label, <<"c","a","r","c","i","n","o","m","a">>)
        \/ Includes(label, <<"p","o","s","i","t","i","v","e">>)
        \/ Includes(label, <<"m","a","l","i","g","n","a","n","t">>)

\* if (preds && preds.length > 0)
Contributes(member) == member.list /\ Len(member.preds) > 0

AddScoreOfPositiveOnly(totalScore, top) ==
    IF IsPositiveLabel(top.label) THEN FloatAdd(totalScore, ScoreValue(top.score))
    ELSE totalScore

\* totalScore += top.score
AddScore(totalScore, top) == FloatAdd(totalScore, ScoreValue(top.score))

\* the accumulators after models.forEach over the given members
RECURSIVE Tally(_, _)
Tally(members, acc) ==
    IF members = <<>> THEN acc
    ELSE LET member == Head(members)
             top == TopPrediction(member.preds)
             pos == IsPositiveLabel(top.label)
         IN  IF Contributes(member)
             THEN Tally(Tail(members),
                        [cancerCount |-> acc.cancerCount + (IF pos THEN 1 ELSE 0),
                         benignCount |-> acc.benignCount + (IF pos THEN 0 ELSE 1),
                         totalScore  |-> AddScore(acc.totalScore, top),
                         modelCount  |-> acc.modelCount + 1])
             ELSE Tally(Tail(members), acc)

ZeroTally ==
    [cancerCount |-> 0, benignCount |-> 0, totalScore |-> FloatZero, modelCount |-> 0]

MajorityPositiveTieWins(cancerCount, benignCount) == cancerCount >= benignCount

\* const isPositive = cancerCount > benignCount
MajorityPositive(cancerCount, benignCount) == cancerCount > benignCount

NullVerdict ==
    [isNull |-> TRUE, label |-> "", isPositive |-> FALSE,
     confidence |-> FloatZero, agreement |-> [num |-> 0, den |-> 1],
     count |-> 0]

NoContributorsBelowTwo(modelCount) == modelCount < 2

\* if (modelCount === 0) return null
NoContributors(modelCount) == modelCount = 0

VerdictLabelAlwaysBenign(isPositive) == "Benign / Normal Tissue"

\* label: isPositive ? "Positive for Malignancy" : "Benign / Normal Tissue"
VerdictLabel(isPositive) ==
    IF isPositive THEN "Positive for Malignancy" ELSE "Benign / Normal Tissue"

\* getConsensus(data); agreement is kept as numerator and denominator,
\* confidence as the double totalScore / total
getConsensus(data) ==
    IF Len(data.members) = 0 THEN NullVerdict
    ELSE LET t == Tally(data.members, ZeroTally)
             sum == t.cancerCount + t.benignCount
             isPositive == MajorityPositive(t.cancerCount, t.benignCount)
         IN  IF NoContributors(t.modelCount) THEN NullVerdict
             ELSE [isNull |-> FALSE,
                   label |-> VerdictLabel(isPositive),
                   isPositive |-> isPositive,
                   confidence |-> FloatDivInt(t.totalScore, sum),
                   agreement |-> [num |-> IF isPositive THEN t.cancerCount
                                                        ELSE t.benignCount,
                                  den |-> sum],
                   count |-> sum]

\* inputs of the consensus engine: PredictionSets over the first
\* MaxModelsVoting model keys holding up to MaxPredictions predictions
VotingKeys == <<"hospital_a", "hospital_b", "hospital_c", "global_fedavg", "global_distilled">>
VotingPredictions ==
    { [label |-> "Invasive Ductal Carcinoma", score |-> 90],
      [label |-> "Normal Tissue", score |-> 90],
      [label |-> "Normal Tissue", score |-> 10] }

RECURSIVE SeqsUpTo(_, _)
SeqsUpTo(S, n) ==
    IF n = 0 THEN {<<>>}
    ELSE LET shorter == SeqsUpTo(S, n - 1)
         IN  shorter \cup { <<x>> \o r : x \in S, r \in { q \in shorter : Len(q) = n - 1 } }

\* per key: the key is absent, maps to null, or maps to a list
RECURSIVE MemberSeqs(_, _)
MemberSeqs(keys, budget) ==
    IF keys = <<>> THEN {<<>>}
    ELSE LET k == Head(keys)
             rest == MemberSeqs(Tail(keys), budget)
         IN  rest \cup { <<NullMember(k)>> \o r : r \in rest }
                  \cup UNION { { <<Member(k, l)>> \o r :
                                    r \in MemberSeqs(Tail(keys), budget - Len(l)) } :
                                l \in SeqsUpTo(VotingPredictions, budget) }

PredictionSets(n, budget) ==
    { [type |-> "object", members |-> ms] :
        ms \in MemberSeqs(SubSeq(VotingKeys, 1, n), budget) }

\* inputs of the keyword test: PredictionSets of one model whose list holds
\* up to n predictions over every label of the model
LabelledPredictions == { [label |-> l, score |-> sc] : l \in Labels, sc \in {60, 90} }

SingleModelSets(n) ==
    { [type |-> "object", members |-> << Member(k, l) >>] :
        k \in Models, l \in SeqsUpTo(LabelledPredictions, n) \ {<<>>} }

\* ------------------------------------------------------------------------
\* ModelResultCard: the per-model display of PredictionResults
\* ------------------------------------------------------------------------
\* the keyword test of ModelResultCard on topPrediction.label.toLowerCase()
CardIsPositiveLabel(labelStr) ==
    LET label == toLowerCase(LabelChars[labelStr])
    IN  \/ Includes(label, <<"c","a","n","c","e","r">>)
        \/ Includes(label, <<"p","o","s","i","t","i","v","e">>)
        \/ Includes(label, <<"c","a","r","c","i","n","o","m","a">>)

\* if (!predictions || predictions.length === 0) return null
NoCard == [shown |-> FALSE, top |-> [label |-> "Normal Tissue", score |-> 0],
           isPositive |-> FALSE]

\* sorted = [...predictions].sort((a, b) => b.score - a.score);
\* topPrediction = sorted[0]; isPositive = keyword test on its label
ModelResultCard(member) ==
    IF ~member.list \/ Len(member.preds) = 0 THEN NoCard
    ELSE LET topPrediction == SortDesc(member.preds)[1]
         IN  [shown |-> TRUE, top |-> topPrediction,
              isPositive |-> CardIsPositiveLabel(topPrediction.label)]

\* ------------------------------------------------------------------------
\* BatchResultsView: the summary statistics and the exported report
\* ------------------------------------------------------------------------
\* the keyword test of stats on top.label.toLowerCase()
IsFlaggedLabel(labelStr) ==
    LET label == toLowerCase(LabelChars[labelStr])
    IN  \/ Includes(label, <<"c","a","n","c","e","r">>)
        \/ Includes(label, <<"c","a","r","c","i","n","o","m","a">>)
        \/ Includes(label, <<"m","a","l","i","g","n","a","n","t">>)

WithoutFirstKeyPositive(r) == [entry |-> r, outcome |-> "true"]

\* if (!firstModelKey) return false; if (!firstModel) return false
WithoutFirstKey(r) == [entry |-> r, outcome |-> "false"]

\* the filter callback of stats applied to one BatchResult: the entry as the
\* call leaves it (firstModel.sort sorts the list of the ledger itself) and
\* what the call does: it returns true or false, or it throws a TypeError
\* (top is undefined for an empty list)
FirstModelCheck(r) ==
    LET members == r.predictions.members
    IN  IF Len(members) = 0 THEN WithoutFirstKey(r)
        ELSE IF ~members[1].list THEN WithoutFirstKey(r)
        ELSE LET sorted == SortDesc(members[1].preds)
                 after == [r EXCEPT !.predictions.members[1].preds = sorted]
             IN  IF sorted = <<>> THEN [entry |-> after, outcome |-> "throws"]
                 ELSE [entry |-> after,
                       outcome |-> IF IsFlaggedLabel(sorted[1].label)
                                   THEN "true" ELSE "false"]

\* results.filter(...) over the ledger, entry by entry until a call throws
RECURSIVE FilterPositive(_, _)
FilterPositive(rs, acc) ==
    IF rs = <<>> THEN acc
    ELSE LET c == FirstModelCheck(Head(rs))
         IN  IF c.outcome = "throws"
             THEN [results |-> acc.results \o <<c.entry>> \o Tail(rs),
                   positive |-> acc.positive, thrown |-> TRUE]
             ELSE FilterPositive(Tail(rs),
                      [results |-> acc.results \o <<c.entry>>,
                       positive |-> acc.positive + (IF c.outcome = "true" THEN 1 ELSE 0),
                       thrown |-> FALSE])

NoStats == [kind |-> "none", total |-> 0, positive |-> 0, benign |-> 0]

\* the value of the stats memo: { total, positive, benign: total - positive }
StatsOf(ledger) ==
    LET scan == FilterPositive(ledger, [results |-> <<>>, positive |-> 0, thrown |-> FALSE])
    IN  IF scan.thrown
        THEN [kind |-> "thrown", total |-> 0, positive |-> 0, benign |-> 0]
        ELSE [kind |-> "returned", total |-> Len(ledger), positive |-> scan.positive,
              benign |-> Len(ledger) - scan.positive]

\* the characters of the string constants of the report
TextChars ==
    ("Filename" :> <<"F","i","l","e","n","a","m","e">>) @@
    ("Status" :> <<"S","t","a","t","u","s">>) @@
    ("Consensus Label" :> <<"C","o","n","s","e","n","s","u","s"," ","L","a","b","e","l">>) @@
    ("Avg Confidence" :> <<"A","v","g"," ","C","o","n","f","i","d","e","n","c","e">>) @@
    ("success" :> <<"s","u","c","c","e","s","s">>) @@
    ("failed" :> <<"f","a","i","l","e","d">>) @@
    ("Positive for Malignancy" :> <<"P","o","s","i","t","i","v","e"," ","f","o","r"," ","M","a","l","i","g","n","a","n","c","y">>) @@
    ("Benign / Normal Tissue" :> <<"B","e","n","i","g","n"," ","/"," ","N","o","r","m","a","l"," ","T","i","s","s","u","e">>) @@
    ("N/A" :> <<"N","/","A">>) @@
    ("0.00" :> <<"0",".","0","0">>) @@
    ("data:text/csv;charset=utf-8," :> <<"d","a","t","a",":","t","e","x","t","/","c","s","v",";","c","h","a","r","s","e","t","=","u","t","f","-","8",",">>)

DigitChars == <<"0","1","2","3","4","5","6","7","8","9">>

\* x.toFixed(4) for a double x: the digits of the integer n for which
\* n / 10^4 - x is closest to zero, the larger n at a tie
ToFixed4(x) ==
    LET p5 == x[5] * 10000
        p4 == x[4] * 10000 + (p5 \div LimbBase)
        p3 == x[3] * 10000 + (p4 \div LimbBase)
        p2 == x[2] * 10000 + (p3 \div LimbBase)
        t  == x[1] * 10000 + (p2 \div LimbBase)
        n  == (t + 64) \div 128
        Digit(d) == DigitChars[d + 1]
    IN  << Digit(n \div 10000), ".", Digit((n \div 1000) % 10), Digit((n \div 100) % 10),
           Digit((n \div 10) % 10), Digit(n % 10) >>

\* cells.join(sep)
RECURSIVE Join(_, _)
Join(cells, sep) ==
    IF cells = <<>> THEN <<>>
    ELSE IF Len(cells) = 1 THEN cells[1]
    ELSE cells[1] \o sep \o Join(Tail(cells), sep)

\* the row of one BatchResult in downloadBatchCSV
ReportRow(r) ==
    LET cons == getConsensus(r.predictions)
    IN  Join(<< r.filename, TextChars[r.status],
                IF cons.isNull THEN TextChars["N/A"] ELSE TextChars[cons.label],
                IF cons.isNull THEN TextChars["0.00"] ELSE ToFixed4(cons.confidence) >>,
             <<",">>)

\* "data:text/csv;charset=utf-8," + [headers.join(","), ...rows].join("\n")
CsvContent(ledger) ==
    LET headers == << TextChars["Filename"], TextChars["Status"],
                      TextChars["Consensus Label"], TextChars["Avg Confidence"] >>
        rows == [j \in 1..Len(ledger) |-> ReportRow(ledger[j])]
    IN  TextChars["data:text/csv;charset=utf-8,"]
        \o Join(<<Join(headers, <<",">>)>> \o rows, <<"\n">>)

\* encodeURI, on the characters of the model: a space, a line feed and a
\* percent sign are escaped, letters, digits and - . , / : ; = are kept
EncodeURIChar(c) ==
    IF c = " " THEN <<"%","2","0">>
    ELSE IF c = "\n" THEN <<"%","0","A">>
    ELSE IF c = "%" THEN <<"%","2","5">>
    ELSE <<c>>

RECURSIVE EncodeURI(_)
EncodeURI(str) ==
    IF str = <<>> THEN <<>>
    ELSE IF Len(str) = 1 THEN EncodeURIChar(str[1])
    ELSE LET half == Len(str) \div 2
         IN  EncodeURI(SubSeq(str, 1, half)) \o EncodeURI(SubSeq(str, half + 1, Len(str)))

\* the ledgers handed to BatchResultsView: entries as batchInfer builds them
ViewFilenames == { <<"a",".","j","p","g">>, <<"a",",","b",".","p","n","g">> }

ViewPredictionSets ==
    { [type |-> "object", members |-> <<>>],
      [type |-> "object",
       members |-> << Member("hospital_a", << [label |-> "Normal Tissue", score |-> 10],
                                              [label |-> "Invasive Ductal Carcinoma", score |-> 90] >>) >>],
      [type |-> "object",
       members |-> << Member("hospital_a", << [label |-> "POSITIVE", score |-> 90] >>) >>],
      [type |-> "object",
       members |-> << Member("hospital_a", << [label |-> "Normal Tissue", score |-> 90] >>),
                      Member("hospital_b", << [label |-> "Invasive Ductal Carcinoma", score |-> 90] >>),
                      Member("hospital_c", << [label |-> "malignant lesion", score |-> 10] >>) >>],
      [type |-> "object",
       members |-> << Member("hospital_a", <<>>),
                      Member("hospital_b", << [label |-> "Lung Cancer", score |-> 90] >>) >>],
      [type |-> "object",
       members |-> << NullMember("hospital_a"),
                      Member("hospital_b", << [label |-> "Normal Tissue", score |-> 90] >>) >>] }

ViewEntries ==
    { [filename |-> f, predictions |-> EmptyPredictionSet, status |-> "failed"] :
        f \in { g \in ViewFilenames : MatchesImagePattern(g) } }
    \cup { [filename |-> f, predictions |-> ps, status |-> "success"] :
              f \in { g \in ViewFilenames : MatchesImagePattern(g) },
              ps \in ViewPredictionSets }

Ledgers(n) == UNION { [1..k -> ViewEntries] : k \in 0..n }

\* ------------------------------------------------------------------------
\* App and Dashboard: settings, history and the runs started by uploads
\* ------------------------------------------------------------------------
\* DEFAULT_SETTINGS (privacyBudget in hundredths)
DefaultSettings ==
    [activeModels |-> [m \in Models |-> TRUE], privacyBudget |-> 80, useLocalPrivacy |-> TRUE]

\* the values the privacy budget slider is moved to
PrivacyBudgets == {50, 80}

\* the settings the user's edits move between: DEFAULT_SETTINGS with at
\* most one of its fields changed
AppSettingsPool ==
    { [DefaultSettings EXCEPT !.activeModels = a] : a \in [Models -> BOOLEAN] }
    \cup { [DefaultSettings EXCEPT !.privacyBudget = v] : v \in PrivacyBudgets }
    \cup { [DefaultSettings EXCEPT !.useLocalPrivacy = c] : c \in BOOLEAN }

AnalysisType == {"predict", "gradcam", "full_inference", "batch_infer"}

\* Object.values(settings.activeModels).filter(Boolean).length
ActiveModelCount(s) == Cardinality({ m \in Models : s.activeModels[m] })

UploadOfferedAlways(s) == TRUE

\* activeModelCount > 0 ? <FileUpload onFileSelect={handleUpload} ... /> :
\* the "Activate a federated node to continue" box
UploadOffered(s) == ActiveModelCount(s) > 0

\* { ...settings, activeModels: { ...settings.activeModels, [key]: !settings.activeModels[key] } }
ToggledModel(s, key) == [s EXCEPT !.activeModels[key] = ~@]

\* results: null, or the value a pipeline returned: the run it is of, the
\* pipeline (mode) that made it and whether the value is truthy
NoResults == [run |-> 0, mode |-> "none", truthy |-> FALSE]

\* the state of a Dashboard instance when it mounts
\* (via: the setLoading calls of the handler that set the loading shown)
MountedDashboard ==
    [shown |-> TRUE, mode |-> "predict", loading |-> "idle", via |-> <<>>,
     error |-> "null", results |-> NoResults]

\* no Dashboard instance is mounted (another route is shown)
NoDashboard ==
    [shown |-> FALSE, mode |-> "predict", loading |-> "idle", via |-> <<>>,
     error |-> "null", results |-> NoResults]

\* renderContent falls through to the upload view
UploadViewShown(d) ==
    /\ d.shown
    /\ d.loading \notin {"processing", "uploading", "error"}
    /\ ~(d.loading = "complete" /\ d.results.truthy)

\* the HistoryRecord handleUpload builds for its run: its id, timestamp,
\* type, filename and result are those of the run
HistoryRecord(run) == [id |-> run]

AddToHistoryOldestFirst(rec, prev) == prev \o <<rec>>

\* setHistory(prev => [rec, ...prev])
AddToHistory(rec, prev) == <<rec>> \o prev

SettingsOfCallCurrent(run, current) == current

\* the settings argument a pipeline hands to the prediction call: the
\* settings parameter of the invocation
SettingsOfCall(run, current) == run.settings

\* ------------------------------------------------------------------------
\* State
\* ------------------------------------------------------------------------
VARIABLES
    op,              \* the ApiService function invoked: "predict", "batchInfer"
    file,            \* the File argument (for batchInfer: the archive)
    settings,        \* the AppSettings argument
    hasProgress,     \* whether an onProgress callback was supplied
    pc,              \* position of batchInfer
    i,               \* loop index of batchInfer
    total,           \* imageEntries.length
    imageEntries,    \* names of the filtered entries
    results,         \* the ledger under construction
    progress,        \* values passed to onProgress so far
    outcome,         \* how the invoked function settled
    ppc,             \* position of the running predict call
    requests,        \* generateContent requests sent (their model keys)
    presult,         \* how the running predict call settled
    predictLog,      \* history: predict calls started by batchInfer
    extractFailed,   \* history: indices whose entry.obj.async('blob') rejected
    waits,           \* history: index i of each pacing wait begun
    data,            \* the PredictionSet handed to getConsensus
    verdict,         \* the value getConsensus returned
    computed,        \* whether getConsensus has returned
    cards,           \* what each ModelResultCard of PredictionResults derived
    stats,           \* the value of the stats memo of BatchResultsView
    encodedUri,      \* the href of the report link that was clicked
    appSettings,     \* App: the settings state
    history,         \* App: the history state
    dashboardKey,    \* App: the dashboardKey state
    route,           \* the route shown: "/", "/history" or "/settings"
    dashboard,       \* the state of the mounted Dashboard instance
    runs,            \* the handleUpload invocations, in start order, each with
                     \* the settings it was called with and, as history, the
                     \* number of its prediction calls, the settings handed to
                     \* the latest one and whether App's settings had been
                     \* edited by then
    finished         \* history: runs that saved a record since the last clear

vars == << op, file, settings, hasProgress, pc, i, total, imageEntries,
           results, progress, outcome, ppc, requests, presult, predictLog,
           extractFailed, waits, data, verdict, computed, cards, stats, encodedUri,
           appSettings, history, dashboardKey, route, dashboard, runs,
           finished >>

batchVars == << pc, i, total, imageEntries, results, progress >>
consVars == << data, verdict, computed, cards >>
viewVars == << stats, encodedUri >>
appVars == << appSettings, history, dashboardKey, route, dashboard, runs, finished >>
argVars == << op, file, settings, hasProgress, consVars, viewVars, appVars >>
runVars == << outcome, ppc, requests, presult, predictLog, extractFailed, waits >>

NoFile == [valid |-> FALSE, entries |-> <<>>]
Pending == [kind |-> "pending", message |-> "", value |-> NoValue]
Thrown(msg) == [kind |-> "thrown", message |-> msg, value |-> NoValue]
Returned(v) == [kind |-> "returned", message |-> "", value |-> v]

InitPredict ==
    /\ op = "predict"
    /\ file = NoFile
    /\ hasProgress = FALSE
    /\ pc = "none"
    /\ ppc = "read"

InitBatch ==
    /\ op = "batchInfer"
    /\ file \in Archives(MaxEntries)
    /\ hasProgress \in BOOLEAN
    /\ pc = "load"
    /\ ppc = "idle"

NoRun ==
    /\ outcome = Pending
    /\ requests = <<>>
    /\ presult = Pending
    /\ predictLog = <<>>
    /\ extractFailed = {}
    /\ waits = <<>>

NoConsensus ==
    /\ data = EmptyPredictionSet
    /\ verdict = NullVerdict
    /\ computed = FALSE
    /\ cards = <<>>

NoView ==
    /\ stats = NoStats
    /\ encodedUri = <<>>

\* the App component at its first render, no upload made
NoApp ==
    /\ appSettings = DefaultSettings
    /\ history = <<>>
    /\ dashboardKey = 0
    /\ route = "/"
    /\ dashboard = MountedDashboard
    /\ runs = <<>>
    /\ finished = <<>>

Init ==
    /\ settings \in SettingsPool
    /\ (InitPredict \/ InitBatch)
    /\ NoConsensus
    /\ i = 0
    /\ total = 0
    /\ imageEntries = <<>>
    /\ results = <<>>
    /\ progress = <<>>
    /\ NoRun
    /\ NoView
    /\ NoApp

\* ------------------------------------------------------------------------
\* ApiService.predict
\* ------------------------------------------------------------------------
\* the call settles: a top-level call settles the invocation, a call made
\* by batchInfer is picked up by the loop
SettlePredict(r) ==
    /\ presult' = r
    /\ ppc' = "settled"
    /\ outcome' = IF op = "predict" THEN r ELSE outcome
    /\ predictLog' = IF op = "batchInfer"
                     THEN [predictLog EXCEPT ![Len(predictLog)].status = r.kind,
                                             ![Len(predictLog)].value = r.value]
                     ELSE predictLog

NoModelsSelectedNeverThrows(activeModelKeys) == Len(activeModelKeys) < 0

\* should predict throw "No models selected in settings."
NoModelsSelected(activeModelKeys) == Len(activeModelKeys) = 0

\* fileToGenerativePart resolves; the active keys are filtered and either
\* the call throws or the request is sent
PredictCheckModels ==
    /\ ppc = "read"
    /\ LET activeModelKeys == ActiveModelKeys(settings)
       IN  IF NoModelsSelected(activeModelKeys)
           THEN /\ SettlePredict(Thrown("No models selected in settings."))
                /\ UNCHANGED requests
           ELSE /\ requests' = Append(requests, activeModelKeys)
                /\ ppc' = "request"
                /\ UNCHANGED << presult, outcome, predictLog >>
    /\ UNCHANGED << argVars, batchVars, extractFailed, waits >>

\* the FileReader of fileToGenerativePart ends without a string result:
\* its promise is never resolved
PredictReadStall ==
    /\ ppc = "read"
    /\ ppc' = "hung"
    /\ UNCHANGED << argVars, batchVars, outcome, requests, presult,
                    predictLog, extractFailed, waits >>

\* ai.models.generateContent rejects
RemoteReject ==
    /\ ppc = "request"
    /\ SettlePredict(Thrown("remote call failed"))
    /\ UNCHANGED << argVars, batchVars, requests, extractFailed, waits >>

\* JSON.parse(text) as FederatedResult
ParseResponse(response) ==
    IF response.kind = "empty" THEN Thrown("No response from AI")
    ELSE IF response.kind = "malformed" THEN Thrown("SyntaxError")
    ELSE Returned(response.value)

\* ai.models.generateContent resolves with a response
RemoteRespond ==
    /\ ppc = "request"
    /\ \E response \in ResponsePool : SettlePredict(ParseResponse(response))
    /\ UNCHANGED << argVars, batchVars, requests, extractFailed, waits >>

\* ------------------------------------------------------------------------
\* ApiService.batchInfer
\* ------------------------------------------------------------------------
Success(name, prediction) ==
    [filename |-> name, predictions |-> prediction, status |-> "success"]
Failed(name) ==
    [filename |-> name, predictions |-> EmptyPredictionSet, status |-> "failed"]

\* zip.loadAsync rejects
BatchLoadFail ==
    /\ pc = "load"
    /\ ~file.valid
    /\ pc' = "thrown"
    /\ outcome' = Thrown("Failed to load ZIP file. Ensure it is a valid archive.")
    /\ UNCHANGED << argVars, i, total, imageEntries, results, progress, ppc,
                    requests, presult, predictLog, extractFailed, waits >>

NoImagesFoundIgnored(filtered) == Len(filtered) < 0

\* if (imageEntries.length === 0) throw ...
NoImagesFound(filtered) == Len(filtered) = 0

\* zip.loadAsync resolves; entries are filtered; the loop starts
BatchLoad ==
    /\ pc = "load"
    /\ file.valid
    /\ LET filtered == FilterImageEntries(file.entries)
       IN  IF NoImagesFound(filtered)
           THEN /\ pc' = "thrown"
                /\ outcome' = Thrown("No supported image files (JPG, PNG, TIFF) found in the ZIP.")
                /\ UNCHANGED << imageEntries, total >>
           ELSE /\ pc' = "extract"
                /\ imageEntries' = filtered
                /\ total' = Len(filtered)
                /\ UNCHANGED outcome
    /\ UNCHANGED << argVars, i, results, progress, ppc, requests, presult,
                    predictLog, extractFailed, waits >>

\* ApiService.predict(fileFromZip, settings) is called
StartPredict ==
    /\ pc' = "predict"
    /\ ppc' = "read"
    /\ presult' = Pending
    /\ predictLog' = Append(predictLog, [index |-> i, status |-> "pending", value |-> NoValue])

NeedsPacingNever(idx) == FALSE

\* if (i > 0) await new Promise(resolve => setTimeout(resolve, 500))
NeedsPacing(idx) == idx > 0

\* entry.obj.async('blob') resolves; pacing wait for every entry but the first
BatchExtract ==
    /\ pc = "extract"
    /\ IF NeedsPacing(i)
       THEN /\ pc' = "pace"
            /\ waits' = Append(waits, i)
            /\ UNCHANGED << ppc, presult, predictLog >>
       ELSE /\ StartPredict
            /\ UNCHANGED waits
    /\ UNCHANGED << argVars, i, total, imageEntries, results, progress,
                    outcome, requests, extractFailed >>

\* entry.obj.async('blob') rejects: caught, the entry is recorded as failed
BatchExtractFail ==
    /\ pc = "extract"
    /\ results' = Append(results, Failed(imageEntries[i + 1]))
    /\ extractFailed' = extractFailed \cup {i}
    /\ pc' = "progress"
    /\ UNCHANGED << argVars, i, total, imageEntries, progress, outcome, ppc,
                    requests, presult, predictLog, waits >>

\* the 500 ms timer fires
BatchPace ==
    /\ pc = "pace"
    /\ StartPredict
    /\ UNCHANGED << argVars, i, total, imageEntries, results, progress,
                    outcome, requests, extractFailed, waits >>

LedgerEntryIgnoresFailure(name, r) == Success(name, r.value)

\* the ledger entry batchInfer records for a settled predict call
LedgerEntry(name, r) ==
    IF r.kind = "returned" THEN Success(name, r.value) ELSE Failed(name)

PredictNotAwaited == ppc \in {"read", "request", "settled"}

\* const prediction = await ApiService.predict(...): the loop resumes only
\* when the call has settled
PredictAwaited == ppc = "settled"

\* the awaited predict call settles: push success, or catch and push failed
BatchPredictSettled ==
    /\ pc = "predict"
    /\ PredictAwaited
    /\ results' = Append(results, LedgerEntry(imageEntries[i + 1], presult))
    /\ pc' = "progress"
    /\ ppc' = "idle"
    /\ UNCHANGED << argVars, i, total, imageEntries, progress, outcome,
                    requests, presult, predictLog, extractFailed, waits >>

AfterIterationReturnsAtOnce(idx, n) == "returned"

\* where the loop goes after iteration i
AfterIteration(idx, n) == IF idx + 1 < n THEN "extract" ELSE "returned"

\* if (onProgress) onProgress(...); i++; loop test; return results
BatchProgress ==
    /\ pc = "progress"
    /\ progress' = IF hasProgress
                   THEN Append(progress, ProgressPercent(i, total))
                   ELSE progress
    /\ i' = i + 1
    /\ pc' = AfterIteration(i, total)
    /\ outcome' = IF pc' = "returned" THEN Returned(results) ELSE outcome
    /\ UNCHANGED << argVars, total, imageEntries, results, ppc, requests,
                    presult, predictLog, extractFailed, waits >>

Next ==
    \/ PredictCheckModels
    \/ PredictReadStall
    \/ RemoteReject
    \/ RemoteRespond
    \/ BatchLoadFail
    \/ BatchLoad
    \/ BatchExtract
    \/ BatchExtractFail
    \/ BatchPace
    \/ BatchPredictSettled
    \/ BatchProgress

Spec == Init /\ [][Next]_vars

\* The event loop runs the continuation of every promise that settles and
\* fires every timer: an awaited extraction resolves or rejects, the pacing
\* timer fires, a request is answered or rejected, and the loop goes on
\* after each of them. The read of the image may never settle
\* (PredictReadStall).
Fairness ==
    /\ WF_vars(BatchLoad \/ BatchLoadFail)
    /\ WF_vars(BatchExtract \/ BatchExtractFail)
    /\ WF_vars(BatchPace)
    /\ WF_vars(PredictCheckModels \/ PredictReadStall)
    /\ WF_vars(RemoteReject \/ RemoteRespond)
    /\ WF_vars(BatchPredictSettled)
    /\ WF_vars(BatchProgress)

\* batchInfer invoked on one of the archives followed to their end
InitLive ==
    /\ settings \in SettingsPool
    /\ op = "batchInfer"
    /\ file \in LiveArchives(MaxLiveEntries)
    /\ hasProgress \in BOOLEAN
    /\ pc = "load"
    /\ ppc = "idle"
    /\ NoConsensus
    /\ i = 0
    /\ total = 0
    /\ imageEntries = <<>>
    /\ results = <<>>
    /\ progress = <<>>
    /\ NoRun
    /\ NoView
    /\ NoApp

SpecLive == InitLive /\ [][Next]_vars /\ Fairness


\* ------------------------------------------------------------------------
\* The progress arithmetic of the batchInfer loop for larger archives: the
\* loop of batchInfer with the work of each iteration left out
\* ------------------------------------------------------------------------
InitProgress ==
    /\ op = "progressLoop"
    /\ file = NoFile
    /\ settings \in { s \in SettingsPool : \A m \in Models : s.activeModels[m] }
    /\ hasProgress = TRUE
    /\ total \in 1..MaxTotal
    /\ pc = "extract"
    /\ i = 0
    /\ imageEntries = <<>>
    /\ results = <<>>
    /\ progress = <<>>
    /\ ppc = "idle"
    /\ NoRun
    /\ NoConsensus
    /\ NoView
    /\ NoApp

\* the try/catch body of iteration i has run
IterationBody ==
    /\ op = "progressLoop"
    /\ pc = "extract"
    /\ pc' = "progress"
    /\ UNCHANGED << argVars, i, total, imageEntries, results, progress, runVars >>

NextProgress ==
    \/ IterationBody
    \/ BatchProgress

SpecProgress == InitProgress /\ [][NextProgress]_vars

\* ------------------------------------------------------------------------
\* getConsensus applied to a PredictionSet
\* ------------------------------------------------------------------------
InitConsensus ==
    /\ op = "getConsensus"
    /\ file = NoFile
    /\ settings \in { s \in SettingsPool : \A m \in Models : s.activeModels[m] }
    /\ hasProgress = FALSE
    /\ data \in PredictionSets(MaxModelsVoting, MaxPredictions)
    /\ verdict = NullVerdict
    /\ computed = FALSE
    /\ cards = <<>>
    /\ pc = "none"
    /\ ppc = "idle"
    /\ i = 0
    /\ total = 0
    /\ imageEntries = <<>>
    /\ results = <<>>
    /\ progress = <<>>
    /\ NoRun
    /\ NoView
    /\ NoApp

ComputeConsensus ==
    /\ op = "getConsensus"
    /\ ~computed
    /\ verdict' = getConsensus(data)
    /\ computed' = TRUE
    /\ UNCHANGED << op, file, settings, hasProgress, data, cards, batchVars, runVars, viewVars,
                    appVars >>

NextConsensus == ComputeConsensus

SpecConsensus == InitConsensus /\ [][NextConsensus]_vars

\* ------------------------------------------------------------------------
\* getConsensus applied to the predictions of one model, over every label
\* ------------------------------------------------------------------------
InitClassifier ==
    /\ op = "getConsensus"
    /\ file = NoFile
    /\ settings \in { s \in SettingsPool : \A m \in Models : s.activeModels[m] }
    /\ hasProgress = FALSE
    /\ data \in SingleModelSets(MaxLabelled)
    /\ verdict = NullVerdict
    /\ computed = FALSE
    /\ cards = <<>>
    /\ pc = "none"
    /\ ppc = "idle"
    /\ i = 0
    /\ total = 0
    /\ imageEntries = <<>>
    /\ results = <<>>
    /\ progress = <<>>
    /\ NoRun
    /\ NoView
    /\ NoApp

SpecClassifier == InitClassifier /\ [][NextConsensus]_vars

\* ------------------------------------------------------------------------
\* PredictionResults rendered over the predictions of one model: the
\* consensus memo and one ModelResultCard per key
\* ------------------------------------------------------------------------
InitResults ==
    /\ op = "PredictionResults"
    /\ file = NoFile
    /\ settings \in { s \in SettingsPool : \A m \in Models : s.activeModels[m] }
    /\ hasProgress = FALSE
    /\ data \in SingleModelSets(MaxLabelled)
    /\ verdict = NullVerdict
    /\ computed = FALSE
    /\ cards = <<>>
    /\ pc = "none"
    /\ ppc = "idle"
    /\ i = 0
    /\ total = 0
    /\ imageEntries = <<>>
    /\ results = <<>>
    /\ progress = <<>>
    /\ NoRun
    /\ NoView
    /\ NoApp

RenderPredictionResults ==
    /\ op = "PredictionResults"
    /\ ~computed
    /\ verdict' = getConsensus(data)
    /\ computed' = TRUE
    /\ cards' = [j \in 1..Len(data.members) |-> ModelResultCard(data.members[j])]
    /\ UNCHANGED << op, file, settings, hasProgress, data, batchVars, runVars, viewVars,
                    appVars >>

NextResults == RenderPredictionResults

SpecResults == InitResults /\ [][NextResults]_vars

\* ------------------------------------------------------------------------
\* BatchResultsView rendered over a ledger, and its report downloaded
\* ------------------------------------------------------------------------
InitBatchView ==
    /\ op = "BatchResultsView"
    /\ file = NoFile
    /\ settings \in { s \in SettingsPool : \A m \in Models : s.activeModels[m] }
    /\ hasProgress = FALSE
    /\ results \in Ledgers(MaxLedger)
    /\ pc = "mount"
    /\ ppc = "idle"
    /\ i = 0
    /\ total = 0
    /\ imageEntries = <<>>
    /\ progress = <<>>
    /\ NoRun
    /\ NoConsensus
    /\ NoView
    /\ NoApp

\* the first render: the stats memo runs over the ledger
RenderBatchResults ==
    /\ op = "BatchResultsView"
    /\ pc = "mount"
    /\ LET scan == FilterPositive(results, [results |-> <<>>, positive |-> 0, thrown |-> FALSE])
       IN  /\ results' = scan.results
           /\ stats' = StatsOf(results)
           /\ pc' = IF scan.thrown THEN "crashed" ELSE "rendered"
    /\ UNCHANGED << op, file, settings, hasProgress, consVars, encodedUri, appVars,
                    i, total, imageEntries, progress, runVars >>

\* a click on "Download Report"
DownloadBatchCSV ==
    /\ op = "BatchResultsView"
    /\ pc = "rendered"
    /\ encodedUri' = EncodeURI(CsvContent(results))
    /\ UNCHANGED << op, file, settings, hasProgress, consVars, stats, appVars,
                    batchVars, runVars >>

NextBatchView ==
    \/ RenderBatchResults
    \/ DownloadBatchCSV

SpecBatchView == InitBatchView /\ [][NextBatchView]_vars

\* ------------------------------------------------------------------------
\* The App: routes, the Dashboard instances, settings, runs and history
\* ------------------------------------------------------------------------
InitApp ==
    /\ op = "App"
    /\ file = NoFile
    /\ settings \in { s \in SettingsPool : \A m \in Models : s.activeModels[m] }
    /\ hasProgress = FALSE
    /\ pc = "none"
    /\ ppc = "idle"
    /\ i = 0
    /\ total = 0
    /\ imageEntries = <<>>
    /\ results = <<>>
    /\ progress = <<>>
    /\ NoRun
    /\ NoConsensus
    /\ NoView
    /\ NoApp

\* the same App, observed for its settings: the user also edits them
InitSettings ==
    /\ op = "Settings"
    /\ file = NoFile
    /\ settings \in { s \in SettingsPool : \A m \in Models : s.activeModels[m] }
    /\ hasProgress = FALSE
    /\ pc = "none"
    /\ ppc = "idle"
    /\ i = 0
    /\ total = 0
    /\ imageEntries = <<>>
    /\ results = <<>>
    /\ progress = <<>>
    /\ NoRun
    /\ NoConsensus
    /\ NoView
    /\ NoApp

\* the operations of the App
AppOps == {"App", "Settings"}

\* the runs a session of the App starts
RunLimit(o) == IF o = "Settings" THEN MaxEditedRuns ELSE MaxRuns

apiVars == << op, file, settings, hasProgress, consVars, viewVars, batchVars, runVars >>

\* a run whose handleUpload has finished: what is kept of it is how it ended
Settled(run, state) ==
    [mounted |-> FALSE, mode |-> "predict", settings |-> DefaultSettings, state |-> state,
     calls |-> 0, used |-> DefaultSettings, edited |-> FALSE]

\* the Dashboard instance unmounts: the runs it started go on without it
Unmounted(rs) == [k \in 1..Len(rs) |-> [rs[k] EXCEPT !.mounted = FALSE]]

SetStateAppliesAlways(run) == TRUE

\* setResults, setError and setLoading of a handleUpload act on the state of
\* the Dashboard instance that started it: once <Dashboard key={dashboardKey}>
\* was replaced or its route left, they change nothing that is shown
SetStateApplies(run) == run.mounted

\* the prediction calls a run of this mode can make: one per image entry
\* for batchInfer, one for predict, gradcam and fullInference
MaxCalls(mode) == IF mode = "batch_infer" THEN MaxRunEntries ELSE 1

\* handleUpload(file) up to its first await: in batch mode a file that is
\* no .zip throws at once; otherwise the pipeline of the selected mode is
\* invoked with the settings of the Dashboard's current render
HandleUpload ==
    /\ op \in AppOps
    /\ UploadViewShown(dashboard)
    /\ UploadOffered(appSettings)
    /\ Len(runs) < RunLimit(op)
    /\ \E isZip \in BOOLEAN :
          LET run == [mounted |-> TRUE, mode |-> dashboard.mode,
                      settings |-> appSettings, state |-> "processing",
                      calls |-> 0, used |-> appSettings, edited |-> FALSE]
          IN  IF dashboard.mode = "batch_infer" /\ ~isZip
              THEN /\ runs' = Append(runs, Settled(run, "error"))
                   /\ dashboard' = [dashboard EXCEPT
                                       !.loading = "error",
                                       !.via = <<"uploading", "processing", "error">>,
                                       !.error = "Batch mode requires a .zip file",
                                       !.results = NoResults]
              ELSE /\ runs' = Append(runs, run)
                   /\ dashboard' = [dashboard EXCEPT
                                       !.loading = "processing",
                                       !.via = <<"uploading", "processing">>,
                                       !.error = "null",
                                       !.results = NoResults]
    /\ UNCHANGED << apiVars, appSettings, history, dashboardKey, route, finished >>

\* the pipeline gets past an await and builds its next prediction request
\* from its settings parameter: predict after fileToGenerativePart (gradcam
\* and fullInference go through predict), batchInfer once per image entry
RunCall ==
    /\ op \in AppOps
    /\ \E k \in 1..Len(runs) :
          /\ runs[k].state = "processing"
          /\ runs[k].calls < MaxCalls(runs[k].mode)
          /\ runs' = [runs EXCEPT
                        ![k].calls = @ + 1,
                        ![k].used = SettingsOfCall(runs[k], appSettings),
                        ![k].edited = (appSettings # runs[k].settings)]
    /\ UNCHANGED << apiVars, appSettings, history, dashboardKey, route, dashboard,
                    finished >>

\* the awaited pipeline call returns (a batch after the last of its
\* entries): setResults, onSaveHistory, setLoading('complete'); state of an
\* unmounted instance is not kept
RunReturn ==
    /\ op \in AppOps
    /\ \E k \in 1..Len(runs) :
          /\ runs[k].state = "processing"
          /\ runs[k].calls > 0
          /\ \E truthy \in (IF runs[k].mode = "predict" THEN BOOLEAN ELSE {TRUE}) :
                dashboard' = IF SetStateApplies(runs[k])
                             THEN [dashboard EXCEPT
                                     !.results = [run |-> k, mode |-> runs[k].mode,
                                                  truthy |-> truthy],
                                     !.loading = "complete",
                                     !.via = <<"complete">>]
                             ELSE dashboard
          /\ runs' = [runs EXCEPT ![k] = Settled(@, "complete")]
          /\ history' = AddToHistory(HistoryRecord(k), history)
          /\ finished' = Append(finished, k)
    /\ UNCHANGED << apiVars, appSettings, dashboardKey, route >>

\* the awaited pipeline call throws: setError, setLoading('error').
\* batchInfer throws only before its loop (archive unreadable or without
\* images); inside the loop it catches
RunThrow ==
    /\ op \in AppOps
    /\ \E k \in 1..Len(runs) :
          /\ runs[k].state = "processing"
          /\ runs[k].mode = "batch_infer" => runs[k].calls = 0
          /\ dashboard' = IF SetStateApplies(runs[k])
                           THEN [dashboard EXCEPT
                                   !.error = "Failed to process inference.",
                                   !.loading = "error",
                                   !.via = <<"error">>]
                           ELSE dashboard
          /\ runs' = [runs EXCEPT ![k] = Settled(@, "error")]
    /\ UNCHANGED << apiVars, appSettings, history, dashboardKey, route, finished >>

\* ModeSelector: onSelect={setMode}
SetMode ==
    /\ op \in AppOps
    /\ UploadViewShown(dashboard)
    /\ \E m \in AnalysisType : dashboard' = [dashboard EXCEPT !.mode = m]
    /\ UNCHANGED << apiVars, appSettings, history, dashboardKey, route, runs, finished >>

\* Dashboard.toggleModel(key), from the upload view
ToggleModel ==
    /\ op \in AppOps
    /\ UploadViewShown(dashboard)
    /\ \E key \in Models : appSettings' = ToggledModel(appSettings, key)
    /\ appSettings' \in AppSettingsPool
    /\ UNCHANGED << apiVars, history, dashboardKey, route, dashboard, runs, finished >>

\* SettingsPanel: toggleModel(key), the local-privacy switch, the budget slider
EditSettings ==
    /\ op \in AppOps
    /\ route = "/settings"
    /\ \/ \E key \in Models : appSettings' = ToggledModel(appSettings, key)
       \/ \E c \in BOOLEAN : appSettings' = [appSettings EXCEPT !.useLocalPrivacy = c]
       \/ \E v \in PrivacyBudgets : appSettings' = [appSettings EXCEPT !.privacyBudget = v]
    /\ appSettings' \in AppSettingsPool
    /\ UNCHANGED << apiVars, history, dashboardKey, route, dashboard, runs, finished >>

\* "Try Again" of the error view, onReset of a results view: setLoading('idle')
BackToIdle ==
    /\ op \in AppOps
    /\ dashboard.shown
    /\ \/ dashboard.loading = "error"
       \/ dashboard.loading = "complete" /\ dashboard.results.truthy
    /\ dashboard' = [dashboard EXCEPT !.loading = "idle", !.via = <<"idle">>]
    /\ UNCHANGED << apiVars, appSettings, history, dashboardKey, route, runs, finished >>

\* Navbar: Link to="/" with onClick={onReset}: handleReset changes the key,
\* a new Dashboard instance mounts in place of the one shown, if any
GoDashboard ==
    /\ op \in AppOps
    /\ dashboardKey + 1 < MaxMounts
    /\ dashboardKey' = dashboardKey + 1
    /\ route' = "/"
    /\ dashboard' = MountedDashboard
    /\ runs' = Unmounted(runs)
    /\ UNCHANGED << apiVars, appSettings, history, finished >>

\* Navbar: Link to="/history" or to="/settings": the Dashboard unmounts
GoElsewhere ==
    /\ op \in AppOps
    /\ \E to \in {"/history", "/settings"} :
          /\ route # to
          /\ route' = to
    /\ dashboard' = NoDashboard
    /\ runs' = Unmounted(runs)
    /\ UNCHANGED << apiVars, appSettings, history, dashboardKey, finished >>

\* HistoryList: onClear={clearHistory}, shown when the history is not empty
ClearHistory ==
    /\ op \in AppOps
    /\ route = "/history"
    /\ history # <<>>
    /\ history' = <<>>
    /\ finished' = <<>>
    /\ UNCHANGED << apiVars, appSettings, dashboardKey, route, dashboard, runs >>

NextApp ==
    \/ HandleUpload
    \/ RunCall
    \/ RunReturn
    \/ RunThrow
    \/ SetMode
    \/ BackToIdle
    \/ GoDashboard
    \/ GoElsewhere
    \/ ClearHistory

SpecApp == InitApp /\ [][NextApp]_vars

NextSettings ==
    \/ NextApp
    \/ ToggleModel
    \/ EditSettings

SpecSettings == InitSettings /\ [][NextSettings]_vars


\* ========================================================================
\* Properties
\* ========================================================================

\* C1 (Spec): batch failure isolation. Once the archive has matching images
\* batchInfer never throws; the ledger entry of every entry whose extraction
\* or prediction failed is "failed" with an empty PredictionSet, every other
\* ledger entry is "success" with the PredictionSet predict returned for it,
\* and the ledger returned at the end is that ledger, one entry per image.
C1_FailureIsolation ==
    LET FailedAt(idx) ==
            \/ idx \in extractFailed
            \/ \E j \in 1..Len(predictLog) :
                   predictLog[j].index = idx /\ predictLog[j].status = "thrown"
        ReturnedAt(idx, v) ==
            \E j \in 1..Len(predictLog) :
                /\ predictLog[j].index = idx
                /\ predictLog[j].status = "returned"
                /\ predictLog[j].value = v
    IN  op = "batchInfer" =>
          /\ (total >= 1 => pc # "thrown")
          /\ \A k \in 1..Len(results) :
                /\ results[k].filename = imageEntries[k]
                /\ IF FailedAt(k - 1)
                   THEN /\ results[k].status = "failed"
                        /\ results[k].predictions = EmptyPredictionSet
                   ELSE /\ results[k].status = "success"
                        /\ ReturnedAt(k - 1, results[k].predictions)
          /\ (pc = "returned" =>
                /\ Len(results) = total
                /\ outcome.kind = "returned"
                /\ outcome.value = results)

\* a batch of three whose first entry failed to extract, whose second
\* prediction threw and whose third succeeded
C1_Witness ==
    /\ op = "batchInfer"
    /\ pc = "returned"
    /\ Len(results) = 3
    /\ 0 \in extractFailed
    /\ results[1].status = "failed"
    /\ results[2].status = "failed"
    /\ 1 \notin extractFailed
    /\ results[3].status = "success"
    /\ Len(results[3].predictions.members) = 2

\* C2 (Spec): ledger shape. The returned ledger has one entry per matching
\* archive entry (not a directory, name ending case-insensitively in a dot
\* and one of the image extensions), the k-th ledger entry is the k-th
\* matching entry in enumeration order, no filename occurs twice and no
\* other entry of the archive occurs.
C2_LedgerShape ==
    LET CiEq(c, d) ==
            \/ c = d
            \/ \E j \in 1..26 : \/ (UpperChars[j] = c /\ LowerChars[j] = d)
                                \/ (UpperChars[j] = d /\ LowerChars[j] = c)
        HasExt(name, ext) ==
            /\ Len(name) > Len(ext)
            /\ name[Len(name) - Len(ext)] = "."
            /\ \A j \in 1..Len(ext) : CiEq(name[Len(name) - Len(ext) + j], ext[j])
        Matching(e) == ~e.dir /\ \E ext \in ImageExtensions : HasExt(e.name, ext)
        n == Len(file.entries)
        M == { j \in 1..n : Matching(file.entries[j]) }
    IN  (op = "batchInfer" /\ pc = "returned") =>
          /\ Len(results) = Cardinality(M)
          /\ Len(outcome.value) = Cardinality(M)
          /\ \A k \in 1..Len(results) :
                \E j \in M : /\ file.entries[j].name = results[k].filename
                             /\ Cardinality({ j2 \in M : j2 < j }) = k - 1
          /\ \A k, l \in 1..Len(results) :
                k # l => results[k].filename # results[l].filename
          /\ \A j \in (1..n) \ M : \A k \in 1..Len(results) :
                results[k].filename # file.entries[j].name

\* an archive B.PNG, ejpg, a.jpg gives the ledger B.PNG, a.jpg
C2_Witness ==
    /\ op = "batchInfer"
    /\ pc = "returned"
    /\ Len(file.entries) = 3
    /\ file.entries[2].name = <<"e","j","p","g">>
    /\ Len(results) = 2
    /\ results[1].filename = <<"B",".","P","N","G">>
    /\ results[2].filename = <<"a",".","j","p","g">>

\* C3 (Spec): strict sequencing. At most one predict call of a batch is
\* pending; calls are started in increasing entry order; while the call for
\* entry i is pending the ledger holds exactly the outcomes of the entries
\* before i, so no call starts before its predecessor's outcome is appended.
C3_StrictSequencing ==
    op = "batchInfer" =>
      /\ Cardinality({ j \in 1..Len(predictLog) : predictLog[j].status = "pending" }) <= 1
      /\ \A j \in 1..(Len(predictLog) - 1) :
            predictLog[j].index < predictLog[j + 1].index
      /\ \A j \in 1..Len(predictLog) :
            /\ predictLog[j].status = "pending" => Len(results) = predictLog[j].index
            /\ j < Len(predictLog) => predictLog[j].status # "pending"
            /\ Len(results) >= predictLog[j].index

\* the third call is pending after two entries were recorded
C3_Witness ==
    /\ op = "batchInfer"
    /\ Len(predictLog) = 3
    /\ predictLog[3].status = "pending"
    /\ ppc = "request"
    /\ Len(results) = 2

\* C4 as stated (SpecProgress): the progress values never decrease, the
\* first one is above 0 and the last one is 100, for every N >= 1.
C4_ProgressValuesAsStated ==
    /\ \A k \in 1..(Len(progress) - 1) : progress[k] <= progress[k + 1]
    /\ (Len(progress) >= 1 => progress[1] > 0)
    /\ (pc = "returned" => Len(progress) = total /\ progress[total] = 100)

\* C4 amended (SpecProgress): the progress values never decrease and the
\* last one is 100 for every N >= 1; the first one is above 0 exactly when
\* N <= 200 (for larger N it is 0).
C4_ProgressValues ==
    /\ \A k \in 1..(Len(progress) - 1) : progress[k] <= progress[k + 1]
    /\ (Len(progress) >= 1 => (progress[1] > 0 <=> total <= 200))
    /\ (pc = "returned" => Len(progress) = total /\ progress[total] = 100)

\* a batch of 200 images has reported 1 first and 100 last
C4_Witness ==
    /\ pc = "returned"
    /\ total = 200
    /\ progress[1] = 1
    /\ progress[200] = 100

\* C5 (SpecProgress): progress cadence. With a callback supplied there is
\* one invocation per finished entry, the k-th carries 100*k/N rounded to
\* the nearest integer (halves up), it comes after entry k is in the ledger
\* and before the predict call of entry k+1 starts.
C5_ProgressCadence ==
    hasProgress =>
      /\ Len(progress) = i
      /\ \A k \in 1..Len(progress) :
            progress[k] = (200 * k + total) \div (2 * total)
      /\ (op = "batchInfer" =>
            /\ Len(progress) <= Len(results)
            /\ \A j \in 1..Len(predictLog) :
                  predictLog[j].status = "pending" =>
                      Len(progress) = predictLog[j].index)

\* C6 (Spec): fatal archive errors. For a blob that is no archive, or an
\* archive without a matching image, batchInfer only ever throws: it never
\* returns a ledger, records no entry, starts no predict call, sends no
\* request and never invokes the progress callback.
C6_FatalArchive ==
    LET CiEq(c, d) ==
            \/ c = d
            \/ \E j \in 1..26 : \/ (UpperChars[j] = c /\ LowerChars[j] = d)
                                \/ (UpperChars[j] = d /\ LowerChars[j] = c)
        HasExt(name, ext) ==
            /\ Len(name) > Len(ext)
            /\ name[Len(name) - Len(ext)] = "."
            /\ \A j \in 1..Len(ext) : CiEq(name[Len(name) - Len(ext) + j], ext[j])
        Matching(e) == ~e.dir /\ \E ext \in ImageExtensions : HasExt(e.name, ext)
        noImages == \A j \in 1..Len(file.entries) : ~Matching(file.entries[j])
    IN  (op = "batchInfer" /\ (~file.valid \/ noImages)) =>
          /\ pc \in {"load", "thrown"}
          /\ outcome.kind # "returned"
          /\ (pc = "thrown" => outcome.kind = "thrown")
          /\ results = <<>>
          /\ predictLog = <<>>
          /\ requests = <<>>
          /\ progress = <<>>
          /\ ppc = "idle"

\* a valid archive of two entries, a directory named like an image and a
\* name without a dot before jpg, made batchInfer throw
C6_Witness ==
    /\ op = "batchInfer"
    /\ file.valid
    /\ Len(file.entries) = 2
    /\ pc = "thrown"
    /\ outcome.kind = "thrown"

\* C7 (Spec): a batch started with no active model aborts with the
\* configuration error: it never returns a ledger.
C7_ConfigErrorAbortsBatch ==
    (op = "batchInfer" /\ \A m \in Models : ~settings.activeModels[m]) =>
        outcome.kind # "returned"

\* C8 (Spec): predict with zero active models. No request is ever sent, the
\* call never returns a PredictionSet, and when it settles it has thrown
\* "No models selected in settings.".
C8_PredictZeroActive ==
    (\A m \in Models : ~settings.activeModels[m]) =>
      /\ requests = <<>>
      /\ ppc # "request"
      /\ presult.kind # "returned"
      /\ (ppc = "settled" =>
            /\ presult.kind = "thrown"
            /\ presult.message = "No models selected in settings.")
      /\ (op = "predict" => outcome = presult)

\* a top-level predict call with no active model has thrown
C8_Witness ==
    /\ op = "predict"
    /\ \A m \in Models : ~settings.activeModels[m]
    /\ outcome.kind = "thrown"
    /\ outcome.message = "No models selected in settings."

\* C9 (Spec): predict response shape. Whatever predict returns is an object
\* in which every requested model key maps to a prediction list.
C9_ResponseShape ==
    (op = "predict" /\ outcome.kind = "returned") =>
      /\ outcome.value.type = "object"
      /\ \A k \in 1..Len(requests[1]) :
            \E j \in 1..Len(outcome.value.members) :
                /\ outcome.value.members[j].model = requests[1][k]
                /\ outcome.value.members[j].list

\* C10 (SpecConsensus): agreement range and tie rule. For a PredictionSet
\* with a non-empty list getConsensus returns a verdict whose agreement lies
\* in [1/2, 1]; isPositive holds exactly when more models vote positive than
\* negative, so a tie and an agreement of 1/2 both give isPositive = FALSE.
C10_AgreementRange ==
    LET ms == data.members
        nonEmpty == { j \in 1..Len(ms) : ms[j].list /\ Len(ms[j].preds) > 0 }
        FirstMax(l) ==
            l[CHOOSE k \in 1..Len(l) :
                  /\ \A k2 \in 1..Len(l) : l[k2].score <= l[k].score
                  /\ \A k2 \in 1..(k - 1) : l[k2].score < l[k].score]
        cancer == Cardinality({ j \in nonEmpty : IsPositiveLabel(FirstMax(ms[j].preds).label) })
        benign == Cardinality(nonEmpty) - cancer
    IN  (computed /\ nonEmpty # {}) =>
          /\ ~verdict.isNull
          /\ verdict.agreement.den > 0
          /\ 2 * verdict.agreement.num >= verdict.agreement.den
          /\ verdict.agreement.num <= verdict.agreement.den
          /\ (verdict.isPositive <=> cancer > benign)
          /\ (cancer = benign => ~verdict.isPositive)
          /\ (2 * verdict.agreement.num = verdict.agreement.den => ~verdict.isPositive)

\* one model voted positive, one negative: agreement 1/2, not positive
C10_Witness ==
    /\ computed
    /\ ~verdict.isNull
    /\ verdict.count = 2
    /\ verdict.agreement = [num |-> 1, den |-> 2]
    /\ ~verdict.isPositive
    /\ \E j \in 1..Len(data.members) :
          /\ Len(data.members[j].preds) > 0
          /\ IsPositiveLabel(TopPrediction(data.members[j].preds).label)

\* C11 (SpecConsensus): confidence is an unfiltered mean. For a PredictionSet
\* with a non-empty list the confidence getConsensus returns is the sum of
\* the top scores of all models with a non-empty list, added in key order in
\* binary64, divided by the number of those models; the models that voted
\* for the losing side are part of the sum and of the divisor.
C11_UnfilteredMean ==
    LET ms == data.members
        nonEmpty == { j \in 1..Len(ms) : ms[j].list /\ Len(ms[j].preds) > 0 }
        MaxScore(l) == CHOOSE sc \in { l[k].score : k \in 1..Len(l) } :
                          \A k \in 1..Len(l) : l[k].score <= sc
        sumTo[j \in 0..Len(ms)] ==
            IF j = 0 THEN FloatZero
            ELSE IF j \in nonEmpty
                 THEN FloatAdd(sumTo[j - 1], ScoreValue(MaxScore(ms[j].preds)))
                 ELSE sumTo[j - 1]
    IN  (computed /\ nonEmpty # {}) =>
          /\ ~verdict.isNull
          /\ verdict.confidence = FloatDivInt(sumTo[Len(ms)], Cardinality(nonEmpty))

\* two models voted positive with 0.9 and one negative with 0.1: the verdict
\* is positive and its confidence is (0.9 + 0.9 + 0.1) / 3
C11_Witness ==
    /\ computed
    /\ ~verdict.isNull
    /\ verdict.isPositive
    /\ verdict.count = 3
    /\ verdict.agreement = [num |-> 2, den |-> 3]
    /\ \E j \in 1..Len(data.members) :
          /\ Len(data.members[j].preds) > 0
          /\ ~IsPositiveLabel(TopPrediction(data.members[j].preds).label)
          /\ TopPrediction(data.members[j].preds).score = 10
    /\ verdict.confidence =
          FloatDivInt(FloatAdd(FloatAdd(ScoreValue(90), ScoreValue(90)), ScoreValue(10)), 3)

\* C12 (SpecConsensus): no-consensus result. getConsensus returns null
\* exactly when no model key maps to a non-empty prediction list (the object
\* has no keys, or every key maps to null or to an empty list), and it
\* returns (a verdict or null) for every PredictionSet.
C12_NullIffNoList ==
    LET ms == data.members
        nonEmpty == { j \in 1..Len(ms) : ms[j].list /\ Len(ms[j].preds) > 0 }
    IN  computed => (verdict.isNull <=> nonEmpty = {})

\* an object with a null member and an empty list gave null
C12_Witness ==
    /\ computed
    /\ verdict.isNull
    /\ Len(data.members) = 2
    /\ \E j \in 1..2 : ~data.members[j].list
    /\ \E j \in 1..2 : data.members[j].list /\ data.members[j].preds = <<>>

\* C13 (SpecConsensus): top selection. The top entry of every non-empty list
\* has the maximum score of the list and is the first entry with that score;
\* when one model contributes, the verdict is that entry's: its confidence
\* is the entry's score and it is positive exactly when the entry's label is.
C13_TopSelection ==
    LET ms == data.members
        nonEmpty == { j \in 1..Len(ms) : ms[j].list /\ Len(ms[j].preds) > 0 }
        FirstMaxIndex(l) ==
            CHOOSE k \in 1..Len(l) :
                /\ \A k2 \in 1..Len(l) : l[k2].score <= l[k].score
                /\ \A k2 \in 1..(k - 1) : l[k2].score < l[k].score
    IN  computed =>
          /\ \A j \in nonEmpty :
                TopPrediction(ms[j].preds) = ms[j].preds[FirstMaxIndex(ms[j].preds)]
          /\ \A j \in nonEmpty :
                nonEmpty = {j} =>
                  LET first == ms[j].preds[FirstMaxIndex(ms[j].preds)]
                  IN  /\ verdict.confidence = ScoreValue(first.score)
                      /\ verdict.isPositive <=> IsPositiveLabel(first.label)

\* one list in which a negative label comes first and a positive label with
\* the same maximal score second: the verdict is negative
C13_Witness ==
    /\ computed
    /\ ~verdict.isNull
    /\ verdict.count = 1
    /\ ~verdict.isPositive
    /\ verdict.confidence = ScoreValue(90)
    /\ \E j \in 1..Len(data.members) :
          LET l == data.members[j].preds
          IN  /\ Len(l) >= 2
              /\ l[1].score = 90 /\ ~IsPositiveLabel(l[1].label)
              /\ l[2].score = 90 /\ IsPositiveLabel(l[2].label)

\* C14 (SpecClassifier): lexical positivity. The verdict over one model is
\* positive exactly when the model's top label contains, letter case
\* ignored, one of "cancer", "carcinoma", "positive", "malignant"; so
\* "POSITIVE" and "malignant lesion" are positive, "Normal Tissue" and
\* "Benign Fibroadenoma" negative.
C14_LexicalPositivity ==
    LET l == data.members[1].preds
        top == l[CHOOSE k \in 1..Len(l) :
                    /\ \A k2 \in 1..Len(l) : l[k2].score <= l[k].score
                    /\ \A k2 \in 1..(k - 1) : l[k2].score < l[k].score]
        Keywords == { <<"c","a","n","c","e","r">>,
                      <<"c","a","r","c","i","n","o","m","a">>,
                      <<"p","o","s","i","t","i","v","e">>,
                      <<"m","a","l","i","g","n","a","n","t">> }
        SameLetter(c, d) ==
            c = d \/ \E j \in 1..26 : {c, d} = {UpperChars[j], LowerChars[j]}
        ContainsIgnoringCase(str, kw) ==
            \E off \in 0..(Len(str) - Len(kw)) :
                \A j \in 1..Len(kw) : SameLetter(str[off + j], kw[j])
    IN  computed =>
          /\ ~verdict.isNull
          /\ verdict.isPositive <=>
                \E kw \in Keywords : ContainsIgnoringCase(LabelChars[top.label], kw)
          /\ top.label \in {"POSITIVE", "malignant lesion", "Invasive Ductal Carcinoma"}
                => verdict.isPositive
          /\ top.label \in {"Normal Tissue", "Benign Fibroadenoma"}
                => ~verdict.isPositive

\* the upper-case label "POSITIVE" was classified positive
C14_Witness ==
    /\ computed
    /\ Len(data.members) = 1
    /\ Len(data.members[1].preds) = 1
    /\ data.members[1].preds[1].label = "POSITIVE"
    /\ verdict.isPositive

\* C15 (SpecConsensus): key-order independence. getConsensus returns the
\* same result (null, or the same isPositive, agreement, confidence, count
\* and label) for every order of the model keys of a PredictionSet.
C15_KeyOrderIndependence ==
    LET ms == data.members
        n == Len(ms)
        Orders == { p \in [1..n -> 1..n] : \A a, b \in 1..n : a # b => p[a] # p[b] }
        Reordered(p) == [type |-> "object", members |-> [j \in 1..n |-> ms[p[j]]]]
    IN  computed => \A p \in Orders : getConsensus(Reordered(p)) = verdict

\* C16 (SpecConsensus): verdict fields. In a verdict count is the number of
\* model keys with a non-empty list, which is the number of positive votes
\* plus the number of negative votes, agreement has count as denominator,
\* and label is "Positive for Malignancy" when isPositive holds and
\* "Benign / Normal Tissue" otherwise.
C16_VerdictFields ==
    LET ms == data.members
        nonEmpty == { j \in 1..Len(ms) : ms[j].list /\ Len(ms[j].preds) > 0 }
        FirstMax(l) ==
            l[CHOOSE k \in 1..Len(l) :
                  /\ \A k2 \in 1..Len(l) : l[k2].score <= l[k].score
                  /\ \A k2 \in 1..(k - 1) : l[k2].score < l[k].score]
        cancer == { j \in nonEmpty : IsPositiveLabel(FirstMax(ms[j].preds).label) }
        benign == { j \in nonEmpty : ~IsPositiveLabel(FirstMax(ms[j].preds).label) }
    IN  (computed /\ ~verdict.isNull) =>
          /\ verdict.count = Cardinality(nonEmpty)
          /\ verdict.count = Cardinality(cancer) + Cardinality(benign)
          /\ verdict.agreement.den = verdict.count
          /\ verdict.isPositive => verdict.label = "Positive for Malignancy"
          /\ ~verdict.isPositive => verdict.label = "Benign / Normal Tissue"

\* three keys, one of them with an empty list: count is 2, both vote
\* positive and the label is the positive one
C16_Witness ==
    /\ computed
    /\ ~verdict.isNull
    /\ Len(data.members) = 3
    /\ \E j \in 1..3 : data.members[j].list /\ data.members[j].preds = <<>>
    /\ verdict.count = 2
    /\ verdict.isPositive
    /\ verdict.label = "Positive for Malignancy"

\* C17 (SpecBatchView): batch summary statistics. The statistics computed
\* over a ledger have total = the ledger's length, positive = the number of
\* entries whose first model key's top prediction is positive by the keyword
\* test of the consensus engine ("cancer", "carcinoma", "positive",
\* "malignant", case ignored), and benign = total - positive.
C17_BatchStatistics ==
    LET FirstTopPositive(r) ==
            LET members == r.predictions.members
            IN  /\ Len(members) > 0
                /\ members[1].list
                /\ Len(members[1].preds) > 0
                /\ LET l == members[1].preds
                       top == l[CHOOSE k \in 1..Len(l) :
                                   /\ \A k2 \in 1..Len(l) : l[k2].score <= l[k].score
                                   /\ \A k2 \in 1..(k - 1) : l[k2].score < l[k].score]
                   IN  IsPositiveLabel(top.label)
        positive == Cardinality({ j \in 1..Len(results) : FirstTopPositive(results[j]) })
    IN  (op = "BatchResultsView" /\ stats.kind = "returned") =>
          /\ stats.total = Len(results)
          /\ stats.positive = positive
          /\ stats.benign = stats.total - positive

\* C18 (SpecBatchView): batch export. The downloaded report, read as lines
\* of comma-separated cells, is the header row followed by one row per ledger
\* entry in ledger order with the cells filename, status, consensus label
\* and confidence of the entry; an entry without consensus has the cells
\* "N/A" and "0.00".
C18_BatchExport ==
    LET n == Len(encodedUri)
        escapes == { j \in 1..n : encodedUri[j] = "%" }
        starts == { j \in 1..n : (j - 1) \notin escapes /\ (j - 2) \notin escapes }
        StartAt(k) == CHOOSE j \in starts : Cardinality({ x \in starts : x < j }) = k - 1
        DecodedChar(j) ==
            IF j \notin escapes THEN encodedUri[j]
            ELSE IF <<encodedUri[j + 1], encodedUri[j + 2]>> = <<"2", "0">> THEN " "
            ELSE IF <<encodedUri[j + 1], encodedUri[j + 2]>> = <<"0", "A">> THEN "\n"
            ELSE "%"
        decoded == [k \in 1..Cardinality(starts) |-> DecodedChar(StartAt(k))]
        prefix == TextChars["data:text/csv;charset=utf-8,"]
        body == SubSeq(decoded, Len(prefix) + 1, Len(decoded))
        Fields(str, sep) ==
            LET seps == { j \in 1..Len(str) : str[j] = sep }
                Bound(k) == IF k = 0 THEN 0
                            ELSE IF k = Cardinality(seps) + 1 THEN Len(str) + 1
                            ELSE CHOOSE j \in seps : Cardinality({ x \in seps : x < j }) = k - 1
            IN  [k \in 1..(Cardinality(seps) + 1) |->
                    SubSeq(str, Bound(k - 1) + 1, Bound(k) - 1)]
        lines == Fields(body, "\n")
        Expected(r) ==
            LET cons == getConsensus(r.predictions)
            IN  << r.filename, TextChars[r.status],
                   IF cons.isNull THEN TextChars["N/A"] ELSE TextChars[cons.label],
                   IF cons.isNull THEN TextChars["0.00"] ELSE ToFixed4(cons.confidence) >>
    IN  (op = "BatchResultsView" /\ encodedUri # <<>>) =>
          /\ SubSeq(decoded, 1, Len(prefix)) = prefix
          /\ Len(lines) = 1 + Len(results)
          /\ Fields(lines[1], ",") =
                << TextChars["Filename"], TextChars["Status"],
                   TextChars["Consensus Label"], TextChars["Avg Confidence"] >>
          /\ \A j \in 1..Len(results) :
                /\ Fields(lines[j + 1], ",") = Expected(results[j])
                /\ results[j].status = "failed" =>
                      /\ Fields(lines[j + 1], ",")[3] = TextChars["N/A"]
                      /\ Fields(lines[j + 1], ",")[4] = TextChars["0.00"]

\* ------------------------------------------------------------------------
\* C19 (SpecSettings).  Whatever edits the settings undergo while a run is
\* in flight, each prediction request the run builds, the single one of
\* predict, gradcam and fullInference as well as those of the batch entries
\* reached after an edit, is built from the settings that were in effect
\* when the run started.
\* ------------------------------------------------------------------------
C19_SettingsSnapshot ==
    \A k \in 1..Len(runs) :
        (runs[k].state = "processing" /\ runs[k].calls > 0)
            => runs[k].used = runs[k].settings

\* a batch run has reached an entry after the settings were edited, and
\* the request was built from the settings of the run's start
C19_Witness ==
    \E k \in 1..Len(runs) :
        /\ runs[k].state = "processing"
        /\ runs[k].mode = "batch_infer"
        /\ runs[k].calls > 0
        /\ runs[k].edited
        /\ appSettings # runs[k].settings
        /\ runs[k].used = runs[k].settings

\* ------------------------------------------------------------------------
\* C20 (SpecApp).  The history is the list of the records of the runs that
\* completed successfully since the last clear, newest first, each once;
\* a failed run has no record; and the history changes only by one record
\* put in front of it or by a clear that empties it.
\* ------------------------------------------------------------------------
C20_NewestFirst ==
    /\ Len(history) = Len(finished)
    /\ \A j \in 1..Len(history) :
          history[j] = HistoryRecord(finished[Len(finished) + 1 - j])
    /\ \A j1, j2 \in 1..Len(history) : history[j1] = history[j2] => j1 = j2
    /\ \A j \in 1..Len(history) :
          /\ history[j].id \in 1..Len(runs)
          /\ runs[history[j].id].state = "complete"
    /\ \A k \in 1..Len(runs) :
          runs[k].state # "complete"
              => \A j \in 1..Len(history) : history[j].id # k

C20_OnlyClearRemoves ==
    \/ /\ Len(history') = Len(history) + 1
       /\ Tail(history') = history
       /\ \E k \in 1..Len(runs) :
             /\ runs[k].state = "processing"
             /\ runs'[k].state = "complete"
             /\ Head(history') = HistoryRecord(k)
    \/ /\ history' = <<>>
       /\ route = "/history"
       /\ \A k \in 1..Len(runs) : runs'[k] = runs[k]
    \/ history' = history

C20_HistoryLedger == [](C20_NewestFirst) /\ [][C20_OnlyClearRemoves]_vars

\* two runs started from different Dashboard instances overlapped: the
\* run started first completed last, and both records are in the history
C20_Witness ==
    /\ Len(runs) >= 2
    /\ runs[1].state = "complete"
    /\ runs[2].state = "complete"
    /\ dashboardKey > 0
    /\ history = << HistoryRecord(1), HistoryRecord(2) >>

\* ------------------------------------------------------------------------
\* C21 (Spec).  In batchInfer the prediction call of every entry but the
\* first comes right after one pacing wait of that entry, and the wait
\* begins when the outcomes of all entries before it are in the ledger;
\* the prediction call of the first entry has no wait before it.
\* ------------------------------------------------------------------------
C21_WaitsBeforeCalls ==
    op = "batchInfer" =>
      /\ \A j \in 1..Len(predictLog) :
            Cardinality({ w \in 1..Len(waits) : waits[w] = predictLog[j].index })
                = (IF predictLog[j].index = 0 THEN 0 ELSE 1)
      /\ \A w \in 1..Len(waits) :
            /\ waits[w] > 0
            /\ Len(results) >= waits[w]
            /\ \/ \E j \in 1..Len(predictLog) : predictLog[j].index = waits[w]
               \/ pc = "pace" /\ i = waits[w] /\ w = Len(waits)
      /\ pc = "pace" => (Len(results) = i /\ ppc = "idle")

C21_WaitThenCall ==
    /\ Len(waits') > Len(waits)
          => /\ waits' = Append(waits, i)
             /\ pc = "extract" /\ pc' = "pace"
             /\ Len(results) = i
             /\ predictLog' = predictLog
    /\ pc = "pace"
          => /\ pc' = "predict"
             /\ Len(predictLog') = Len(predictLog) + 1
             /\ predictLog'[Len(predictLog')].index = i
             /\ waits' = waits
    /\ (op = "batchInfer" /\ Len(predictLog') > Len(predictLog))
          => IF i = 0 THEN pc = "extract" /\ waits = <<>> ELSE pc = "pace"

C21_Pacing == [](C21_WaitsBeforeCalls) /\ [][C21_WaitThenCall]_vars

\* the first entry was predicted without a wait, the second entry's
\* extraction failed, and the third entry's call followed its wait
C21_Witness ==
    /\ op = "batchInfer"
    /\ Len(predictLog) = 2
    /\ predictLog[1].index = 0
    /\ predictLog[2].index = 2
    /\ 1 \in extractFailed
    /\ waits = <<2>>
    /\ pc = "predict"

\* ------------------------------------------------------------------------
\* C22 (SpecResults).  For a non-empty prediction list the ModelResultCard
\* derives the top prediction and the positivity flag that the consensus
\* engine derives for that list.
\* ------------------------------------------------------------------------
C22_SharedReducer ==
    (op = "PredictionResults" /\ computed) =>
        \A j \in 1..Len(data.members) :
            Contributes(data.members[j]) =>
                /\ cards[j].shown
                /\ cards[j].top = TopPrediction(data.members[j].preds)
                /\ cards[j].isPositive
                      = IsPositiveLabel(TopPrediction(data.members[j].preds).label)
                /\ cards[j].isPositive = verdict.isPositive

\* ------------------------------------------------------------------------
\* C23 (SpecBatchView).  Rendering the batch results (summary statistics
\* and table) and downloading the report leave the ledger as batchInfer
\* returned it: every BatchResult, and the order of the predictions in
\* each model's list, is unchanged.
\* ------------------------------------------------------------------------
C23_LedgerImmutability == [][op = "BatchResultsView" => results' = results]_vars

\* ------------------------------------------------------------------------
\* C24 (SpecBatchView).  Computing the summary statistics never raises an
\* error, whatever the ledger: an entry whose first model key maps to an
\* empty prediction list is no error and adds nothing to positive.
\* ------------------------------------------------------------------------
C24_NoDataIsNoError ==
    LET HasFirstTop(r) ==
            /\ Len(r.predictions.members) > 0
            /\ r.predictions.members[1].list
            /\ Len(r.predictions.members[1].preds) > 0
    IN  (op = "BatchResultsView" /\ pc # "mount") =>
          /\ pc # "crashed"
          /\ stats.kind = "returned"
          /\ stats.positive
                <= Cardinality({ j \in 1..Len(results) : HasFirstTop(results[j]) })

\* ------------------------------------------------------------------------
\* C27 (SpecBatchView).  In the summary statistics an entry with status
\* "failed" is never counted in positive: positive is at most the number
\* of the other entries, positive + benign = total, and benign is at least
\* the number of failed entries.
\* ------------------------------------------------------------------------
C27_FailedReadBenign ==
    LET failed == { j \in 1..Len(results) : results[j].status = "failed" }
    IN  (op = "BatchResultsView" /\ stats.kind = "returned") =>
          /\ \A j \in failed : FirstModelCheck(results[j]).outcome = "false"
          /\ stats.positive <= Len(results) - Cardinality(failed)
          /\ stats.positive + stats.benign = stats.total
          /\ stats.total = Len(results)
          /\ stats.benign >= Cardinality(failed)

\* a failed slide and a slide read as carcinoma: one positive, one benign
C27_Witness ==
    /\ op = "BatchResultsView"
    /\ stats.kind = "returned"
    /\ Len(results) = 2
    /\ results[1].status = "failed"
    /\ results[2].status = "success"
    /\ stats.positive = 1
    /\ stats.benign = 1

\* ------------------------------------------------------------------------
\* C25 (SpecLive).  Once batchInfer is in its loop over N >= 1 matching
\* images it goes on to return a ledger of N entries, whatever the entries'
\* outcomes are, unless a prediction call never settles; nothing cancels
\* it on the way.
\* ------------------------------------------------------------------------
C25_RunToCompletion ==
    (op = "batchInfer" /\ pc = "extract")
        ~> \/ /\ pc = "returned"
              /\ outcome = Returned(results)
              /\ total >= 1
              /\ Len(results) = total
              /\ total = Len(FilterImageEntries(file.entries))
           \/ ppc = "hung"

\* a ledger of two entries was returned: the first extraction failed, the
\* second prediction succeeded
C25_Witness ==
    /\ op = "batchInfer"
    /\ pc = "returned"
    /\ outcome = Returned(results)
    /\ Len(results) = 2
    /\ total = 2
    /\ 0 \in extractFailed
    /\ results[1].status = "failed"
    /\ results[2].status = "success"

\* ------------------------------------------------------------------------
\* C26 (SpecApp).  A reset of the dashboard while a run is in flight does
\* not cancel the run: the run stays in flight with what it had; when it
\* later returns or throws, the state of the Dashboard instance now shown
\* (loading, results, error, mode) is unchanged, and on a return its record
\* is put in front of the history.
\* ------------------------------------------------------------------------
C26_ResetStep ==
    /\ (dashboardKey' # dashboardKey) =>
          /\ Len(runs') = Len(runs)
          /\ history' = history
          /\ \A k \in 1..Len(runs) :
                /\ runs'[k].state = runs[k].state
                /\ runs'[k].mode = runs[k].mode
                /\ runs'[k].settings = runs[k].settings
                /\ runs'[k].calls = runs[k].calls
                /\ ~runs'[k].mounted
    /\ \A k \in 1..Len(runs) :
          (runs[k].state = "processing" /\ ~runs[k].mounted
             /\ runs'[k].state # "processing") =>
                /\ dashboard' = dashboard
                /\ runs'[k].state = "complete"
                      => history' = <<HistoryRecord(k)>> \o history
                /\ runs'[k].state = "error" => history' = history

C26_ResetDuringRun == [][C26_ResetStep]_vars

\* the first run was in flight when the dashboard was reset; the second
\* run, of the new instance, returned first and is what the dashboard
\* shows; the first run returned after it and has its record
C26_Witness ==
    /\ dashboardKey > 0
    /\ Len(runs) = 2
    /\ runs[1].state = "complete"
    /\ runs[2].state = "complete"
    /\ finished = <<2, 1>>
    /\ Len(history) = 2
    /\ history[1] = HistoryRecord(1)
    /\ dashboard.shown
    /\ dashboard.loading = "complete"
    /\ dashboard.results.run = 2

\* ------------------------------------------------------------------------
\* C28 (SpecApp).  In every state of a Dashboard instance: when loading is
\* 'complete', results is the value returned by the pipeline of the mode
\* now selected; when loading is 'error', the error message is not null.
\* Results are cleared when a run starts, and the run whose failure sets
\* loading to 'error' adds no history record.
\* ------------------------------------------------------------------------
C28_Consistent ==
    dashboard.shown =>
      /\ dashboard.loading = "complete" =>
            /\ dashboard.results.run # 0
            /\ dashboard.results.mode = dashboard.mode
      /\ dashboard.loading = "error" => dashboard.error # "null"

C28_Step ==
    /\ Len(runs') > Len(runs) =>
          \/ dashboard'.results = NoResults
          \/ ~dashboard'.shown
    /\ (dashboard'.shown /\ dashboard'.loading = "error" /\ dashboard.loading # "error") =>
          /\ history' = history
          /\ \E k \in 1..Len(runs') :
                /\ runs'[k].state = "error"
                /\ k > Len(runs) \/ runs[k].state = "processing"
                /\ \A j \in 1..Len(history') : history'[j] # HistoryRecord(k)

C28_ResultConsistency == [](C28_Consistent) /\ [][C28_Step]_vars

\* ------------------------------------------------------------------------
\* C29 (SpecApp).  Within one Dashboard instance a run starts only while
\* loading is 'idle'; while loading is 'uploading' or 'processing' no
\* handleUpload can begin and at most one run started by the instance is
\* in flight; and loading is only ever set along idle -> uploading ->
\* processing -> (complete | error) -> idle.
\* ------------------------------------------------------------------------
C29_AtMostOneRun ==
    /\ Cardinality({ k \in 1..Len(runs) :
                        runs[k].state = "processing" /\ runs[k].mounted }) <= 1
    /\ \A k \in 1..Len(runs) :
          (runs[k].state = "processing" /\ runs[k].mounted)
              => (dashboard.shown /\ dashboard.loading = "processing")
    /\ (dashboard.shown /\ dashboard.loading \in {"uploading", "processing"})
          => ~UploadViewShown(dashboard)

C29_Step ==
    LET edges == { <<"idle", "uploading">>, <<"uploading", "processing">>,
                   <<"processing", "complete">>, <<"processing", "error">>,
                   <<"complete", "idle">>, <<"error", "idle">> }
        calls == <<dashboard.loading>> \o dashboard'.via
    IN  /\ Len(runs') > Len(runs) => dashboard.loading = "idle"
        /\ (dashboard.shown /\ dashboard'.shown /\ dashboardKey' = dashboardKey
              /\ (dashboard'.loading # dashboard.loading \/ Len(runs') > Len(runs))) =>
                 \A j \in 1..(Len(calls) - 1) : <<calls[j], calls[j + 1]>> \in edges

C29_OneRunPerInstance == [](C29_AtMostOneRun) /\ [][C29_Step]_vars

\* ------------------------------------------------------------------------
\* C30 (SpecSettings).  Whatever toggles, mode changes and uploads came
\* before, a run is started with settings that have at least one active
\* model: no prediction call of a run started from the dashboard, single
\* or of a batch entry, meets predict's "No models selected" test.
\* ------------------------------------------------------------------------
C30_RunsHaveModels ==
    \A k \in 1..Len(runs) :
        /\ ActiveModelCount(runs[k].settings) > 0
        /\ ~NoModelsSelected(ActiveModelKeys(runs[k].settings))
        /\ runs[k].calls > 0 => ~NoModelsSelected(ActiveModelKeys(runs[k].used))

C30_StartStep ==
    Len(runs') > Len(runs) =>
        /\ ActiveModelCount(appSettings) > 0
        /\ runs'[Len(runs')].state = "processing"
              => runs'[Len(runs')].settings = appSettings

C30_UploadGating == [](C30_RunsHaveModels) /\ [][C30_StartStep]_vars

\* a batch run started with one active model after a toggle has made a
\* prediction call; by then the last model was switched off as well
C30_Witness ==
    \E k \in 1..Len(runs) :
        /\ runs[k].state = "processing"
        /\ runs[k].mode = "batch_infer"
        /\ runs[k].calls > 0
        /\ ActiveModelCount(runs[k].settings) = 1
        /\ runs[k].used = runs[k].settings
        /\ ActiveModelCount(appSettings) = 0

====
